---- MODULE Spec2Model ----
(***************************************************************************)
(* A model of the wit2ts compiler of vscode-wasm:                          *)
(*   - wit-json  (src/unnamed/part_000): the TypeKind classifiers,         *)
(*   - wit2ts    (src/unnamed/part_002): Names, Imports, Code, Symbols,    *)
(*     the ComponentModel and TypeScript emitters and printers, the two    *)
(*     entry buffers and the DocumentVisitor.                              *)
(* Texts are TLA+ strings, built and inspected character by character, so  *)
(* the generated lines are the lines the program prints.                   *)
(***************************************************************************)
EXTENDS Integers, Sequences, FiniteSets, TLC

VARIABLES
    \* wit-json: the node handed to the classifiers and what they answered
    kind, kindOf, matched, classified,
    \* wit2ts Symbols: the map of one Symbols object and the last lookup
    symbols, lookedUp, lookupResult,
    \* wit2ts printers: the node printed and the two printers' results
    tyNode, tsResult, cmResult, printed,
    \* wit2ts DocumentVisitor: this.interfaceData, this.code (imports,
    \* baseTypes, source, indent), the local `sorted` of the last
    \* ComponentModelEntries.emit, the text handed to console.log, the
    \* position of the walk, and the items the walk has visited so far
    interfaceData, imports, baseTypes, source, indent, sorted, output,
    phase, walked,
    \* wit-json Owner: the owner handed to Owner.resolve and Owner.kind, the
    \* document it is resolved in, and what each of them returned or threw
    owner, document, resolved, ownerKind,
    \* the command line: the options of run, what the file system and the
    \* document processing will answer, the position of run, the status it
    \* returned and what it wrote to stderr
    options, files, pc, exitCode, stderr

kindVars == <<kind, kindOf, matched, classified>>
symbolVars == <<symbols, lookedUp, lookupResult>>
printerVars == <<tyNode, tsResult, cmResult, printed>>
visitorVars == <<interfaceData, imports, baseTypes, source, indent, sorted,
                 output, phase, walked>>
ownerVars == <<owner, document, resolved, ownerKind>>
cliVars == <<options, files, pc, exitCode, stderr>>
vars == <<kindVars, symbolVars, printerVars, visitorVars, ownerVars, cliVars>>

----------------------------------------------------------------------------
(* Bounds of the model.                                                    *)

\* the largest type index a numeric reference of a wit-json node holds
MaxIndex == 1
\* the number of member items one document walk visits
MaxItems == 3
\* the number of interfaces one document walk visits
MaxInterfaces == 2
\* the number of symbols one Symbols object is given
MaxSymbols == 2

----------------------------------------------------------------------------
(* JavaScript values and strings.                                          *)

\* an optional value (T | undefined): <<>> is undefined, <<v>> is v
Undefined == <<>>
Some(v) == <<v>>
IsDefined(o) == o # <<>>
ValueOf(o) == o[1]

Char(s, i) == SubSeq(s, i, i)
StartsWith(s, p) == Len(s) >= Len(p) /\ SubSeq(s, 1, Len(p)) = p

RECURSIVE Join(_, _)
\* Array.prototype.join (the sequence is split in halves to keep the
\* evaluation shallow)
Join(seq, sep) ==
    IF Len(seq) = 0 THEN ""
    ELSE IF Len(seq) = 1 THEN seq[1]
    ELSE LET half == Len(seq) \div 2
         IN  Join(SubSeq(seq, 1, half), sep) \o sep
             \o Join(SubSeq(seq, half + 1, Len(seq)), sep)

RECURSIVE ReplaceAll(_, _, _)
\* String.prototype.replace with a global one-character pattern
ReplaceAll(s, c, by) ==
    IF Len(s) = 0 THEN ""
    ELSE (IF Char(s, 1) = c THEN by ELSE Char(s, 1))
         \o ReplaceAll(SubSeq(s, 2, Len(s)), c, by)

RECURSIVE ReplaceFirst(_, _, _)
\* String.prototype.replace with a string pattern: the first occurrence only
ReplaceFirst(s, pat, by) ==
    IF Len(s) < Len(pat) THEN s
    ELSE IF StartsWith(s, pat) THEN by \o SubSeq(s, Len(pat) + 1, Len(s))
    ELSE Char(s, 1) \o ReplaceFirst(SubSeq(s, 2, Len(s)), pat, by)

Digits == <<"0", "1", "2", "3", "4", "5", "6", "7", "8", "9">>

RECURSIVE NumberText(_)
\* template literal ${n} of a natural number
NumberText(n) ==
    IF n < 10 THEN Digits[n + 1]
    ELSE NumberText(n \div 10) \o Digits[(n % 10) + 1]

Range(seq) == {seq[i] : i \in 1..Len(seq)}

\* TRUE, once x has been evaluated: TLC evaluates an argument only when it
\* is read, and a long chain of pushes is otherwise evaluated all at once
Evaluated(x) == x = x

\* const name = value: the value is computed, then the statements that
\* read it
With(value, Body(_)) == IF Evaluated(value) THEN Body(value) ELSE Body(value)

----------------------------------------------------------------------------
(* wit-json: JSON values and the TypeKind classifiers.                     *)

\* a JSON value is tagged with what it is; an object carries a record of
\* its members, an array the sequence of its elements
JNum(n) == [t |-> "number", n |-> n]
JStr(s) == [t |-> "string", s |-> s]
JNull == [t |-> "null"]
JUndefined == [t |-> "undefined"]
JObj(members) == [t |-> "object", o |-> members]
JArr(elements) == [t |-> "array", a |-> elements]

\* the typeof operator: null and arrays are objects
TypeOf(x) == IF x.t \in {"null", "array"} THEN "object" ELSE x.t

\* member access obj.key; a missing member reads as undefined
Get(obj, key) ==
    IF obj.t = "object" /\ key \in DOMAIN obj.o THEN obj.o[key] ELSE JUndefined

isBaseType(k) == TypeOf(Get(k, "type")) = "string"

isTypeReference(k) == TypeOf(Get(k, "type")) = "number"

isTypeObject(k) ==
    TypeOf(Get(k, "type")) = "number" \/ TypeOf(Get(k, "type")) = "string"

isRecord(k) == TypeOf(Get(k, "record")) = "object"

isVariant(k) == TypeOf(Get(k, "variant")) = "object"

isEnum(k) == TypeOf(Get(k, "enum")) = "object"

isFlags(k) == TypeOf(Get(k, "flags")) = "object"

isTuple(k) == TypeOf(Get(k, "tuple")) = "object"

isListTypeField(k) ==
    TypeOf(Get(k, "type")) = "number" \/ TypeOf(Get(k, "type")) = "string"

isList(k) ==
    TypeOf(Get(k, "list")) = "number" \/ TypeOf(Get(k, "list")) = "string"

isOption(k) ==
    TypeOf(Get(k, "option")) = "number" \/ TypeOf(Get(k, "option")) = "string"

isResult(k) ==
    LET ok == Get(Get(k, "result"), "ok")
        err == Get(Get(k, "result"), "err")
    IN  /\ ok.t # "undefined"
        /\ (TypeOf(ok) = "number" \/ TypeOf(ok) = "string" \/ ok.t = "null")
        /\ err.t # "undefined"
        /\ (TypeOf(err) = "number" \/ TypeOf(err) = "string" \/ err.t = "null")

\* the eleven predicates of namespace TypeKind, by name
\* the members of an object in the order JSON.stringify writes them
MemberOrder == <<"world", "interface", "name", "type", "function">>

\* JSON.stringify of a number, a string, null or an object of such members;
\* a member whose value is undefined is left out
Stringify(x) ==
    CASE x.t = "number" -> NumberText(x.n)
      [] x.t = "string" -> "\"" \o x.s \o "\""
      [] x.t = "null" -> "null"
      [] x.t = "object" ->
            LET keys == SelectSeq(MemberOrder,
                            LAMBDA k : k \in DOMAIN x.o /\ x.o[k].t # "undefined")
                text(v) == CASE v.t = "number" -> NumberText(v.n)
                             [] v.t = "string" -> "\"" \o v.s \o "\""
                             [] OTHER -> "null"
            IN  "{" \o Join([i \in 1..Len(keys) |->
                                "\"" \o keys[i] \o "\":" \o text(x.o[keys[i]])], ",")
                    \o "}"

\* what a function did: it returned a value or threw an Error
Return(value) == [t |-> "return", value |-> value, message |-> ""]
Throw(message) == [t |-> "throw", value |-> JUndefined, message |-> message]

\* array[index]: an index outside the array reads as undefined
At(array, index) ==
    IF index + 1 \in 1..Len(array) THEN array[index + 1] ELSE JUndefined

\* Owner.isWorld, Owner.isInterface
isWorld(o) == TypeOf(Get(o, "world")) = "number"
isInterface(o) == TypeOf(Get(o, "interface")) = "number"

\* a resolve that looks a world up among the interfaces
OwnerResolveAmongInterfaces(o, doc) ==
    IF isWorld(o) THEN Return(At(doc.interfaces, Get(o, "world").n))
    ELSE IF isInterface(o) THEN Return(At(doc.interfaces, Get(o, "interface").n))
    ELSE Throw("Unknown owner kind " \o Stringify(o))

\* Owner.resolve
OwnerResolve(o, doc) ==
    IF isWorld(o) THEN Return(At(doc.worlds, Get(o, "world").n))
    ELSE IF isInterface(o) THEN Return(At(doc.interfaces, Get(o, "interface").n))
    ELSE Throw("Unknown owner kind " \o Stringify(o))

\* Owner.kind
OwnerKindOf(o) ==
    IF isWorld(o) THEN Return(JStr("world"))
    ELSE IF isInterface(o) THEN Return(JStr("interface"))
    ELSE Throw("Unknown owner kind " \o Stringify(o))

Predicates ==
    {"isBaseType", "isTypeReference", "isTypeObject", "isRecord", "isVariant",
     "isEnum", "isFlags", "isTuple", "isList", "isOption", "isResult"}

Holds(p, k) ==
    CASE p = "isBaseType" -> isBaseType(k)
      [] p = "isTypeReference" -> isTypeReference(k)
      [] p = "isTypeObject" -> isTypeObject(k)
      [] p = "isRecord" -> isRecord(k)
      [] p = "isVariant" -> isVariant(k)
      [] p = "isEnum" -> isEnum(k)
      [] p = "isFlags" -> isFlags(k)
      [] p = "isTuple" -> isTuple(k)
      [] p = "isList" -> isList(k)
      [] p = "isOption" -> isOption(k)
      [] p = "isResult" -> isResult(k)

\* the names of the built-in types a symbolic reference holds
BuiltinNames ==
    {"u8", "u16", "u32", "u64", "s8", "s16", "s32", "s64",
     "float32", "float64", "bool", "char", "string"}

\* TypeReference = number | string
TypeReferences == {JNum(i) : i \in 0..MaxIndex} \cup {JStr(s) : s \in BuiltinNames}

Docs == JObj([contents |-> JNull])

\* sequences over S of length at most n
SeqUpTo(S, n) == UNION {[1..m -> S] : m \in 0..n}

\* the well-formed TypeKind nodes, each with the kind it was built as
BaseTypeKinds == {JObj([type |-> JStr(s)]) : s \in BuiltinNames}
TypeReferenceKinds == {JObj([type |-> JNum(i)]) : i \in 0..MaxIndex}
RecordKinds ==
    {JObj([record |-> JObj([fields |-> JArr(fs)])]) :
        fs \in SeqUpTo({JObj([name |-> JStr("f"), docs |-> Docs, type |-> r]) :
                            r \in TypeReferences}, 1)}
VariantKinds ==
    {JObj([variant |-> JObj([cases |-> JArr(cs)])]) :
        cs \in SeqUpTo({JObj([name |-> JStr("c"), docs |-> Docs, type |-> r]) :
                            r \in TypeReferences \cup {JNull}}, 1)}
EnumKinds ==
    {JObj([enum |-> JObj([cases |-> JArr(cs)])]) :
        cs \in SeqUpTo({JObj([name |-> JStr(n), docs |-> Docs]) : n \in {"a", "b"}}, 2)}
FlagsKinds ==
    {JObj([flags |-> JObj([flags |-> JArr(fs)])]) :
        fs \in SeqUpTo({JObj([name |-> JStr(n), docs |-> Docs]) : n \in {"a", "b"}}, 2)}
TupleKinds ==
    {JObj([tuple |-> JObj([types |-> JArr(ts)])]) : ts \in SeqUpTo(TypeReferences, 1)}
ListKinds == {JObj([list |-> r]) : r \in TypeReferences}
OptionKinds == {JObj([option |-> r]) : r \in TypeReferences}
ResultKinds ==
    {JObj([result |-> JObj([ok |-> o, err |-> e])]) :
        o \in TypeReferences \cup {JNull}, e \in TypeReferences \cup {JNull}}

KindNames ==
    {"base", "reference", "record", "variant", "enum", "flags", "tuple",
     "list", "option", "result"}

KindsOf(name) ==
    CASE name = "base" -> BaseTypeKinds
      [] name = "reference" -> TypeReferenceKinds
      [] name = "record" -> RecordKinds
      [] name = "variant" -> VariantKinds
      [] name = "enum" -> EnumKinds
      [] name = "flags" -> FlagsKinds
      [] name = "tuple" -> TupleKinds
      [] name = "list" -> ListKinds
      [] name = "option" -> OptionKinds
      [] name = "result" -> ResultKinds

\* the predicate written for each kind
PredicateOf(name) ==
    CASE name = "base" -> "isBaseType"
      [] name = "reference" -> "isTypeReference"
      [] name = "record" -> "isRecord"
      [] name = "variant" -> "isVariant"
      [] name = "enum" -> "isEnum"
      [] name = "flags" -> "isFlags"
      [] name = "tuple" -> "isTuple"
      [] name = "list" -> "isList"
      [] name = "option" -> "isOption"
      [] name = "result" -> "isResult"

\* ObjectKind.isTypeObject
ObjectKind_isTypeObject(k) == TypeOf(Get(k, "type")) = "number"

\* ObjectKind.isFuncObject
ObjectKind_isFuncObject(k) == TypeOf(Get(k, "function")) = "object"

\* ObjectKind.isInterfaceObject
ObjectKind_isInterfaceObject(k) == TypeOf(Get(k, "interface")) = "number"

ObjectPredicates == {"isTypeObject", "isFuncObject", "isInterfaceObject"}

ObjectHolds(p, k) ==
    CASE p = "isTypeObject" -> ObjectKind_isTypeObject(k)
      [] p = "isFuncObject" -> ObjectKind_isFuncObject(k)
      [] p = "isInterfaceObject" -> ObjectKind_isInterfaceObject(k)

\* the values of ObjectKind = TypeObject | FuncObject | InterfaceObject
TypeObjects == {JObj([type |-> r]) : r \in TypeReferences}
Funcs ==
    {JObj([name |-> JStr("f"), kind |-> JStr("freestanding"),
           params |-> JArr(ps), results |-> JArr(rs)]) :
        ps \in SeqUpTo({JObj([name |-> JStr("p"), type |-> r]) : r \in TypeReferences}, 1),
        rs \in SeqUpTo({JObj([type |-> JNum(0)]), JObj([type |-> JStr("u8")])}, 1)}
FuncObjects == {JObj([function |-> f]) : f \in Funcs}
InterfaceObjects == {JObj([interface |-> JNum(i)]) : i \in 0..MaxIndex}

ObjectKindNames == {"type", "function", "interface"}

ObjectKindsOf(name) ==
    CASE name = "type" -> TypeObjects
      [] name = "function" -> FuncObjects
      [] name = "interface" -> InterfaceObjects

----------------------------------------------------------------------------
(* wit2ts: Names, Imports, Code and Symbols.                               *)

\* the keywords map of namespace Names
Keywords == [this |-> "$this", in |-> "$in"]

\* Names.toTs: '-' becomes '_', a leading '%' is dropped, keywords are escaped
toTs(id) ==
    LET replaced == ReplaceAll(id.value, "-", "_")
        result == IF Len(replaced) > 0 /\ Char(replaced, 1) = "%"
                  THEN SubSeq(replaced, 2, Len(replaced))
                  ELSE replaced
    IN  IF result \in DOMAIN Keywords THEN Keywords[result] ELSE result

Identifier(value) == [kind |-> "Identifier", value |-> value]

\* Set.prototype.add on a Set kept in insertion order: Imports.addBaseType
addBaseTypePush(set, name) == Append(set, name)

addBaseType(set, name) ==
    IF name \in Range(set) THEN set ELSE Append(set, name)

\* Imports.add on the Map `imports`, a sequence of [from, values] in
\* insertion order
ImportsIndex(map, from) ==
    IF \E i \in 1..Len(map) : map[i].from = from
    THEN CHOOSE i \in 1..Len(map) : map[i].from = from
    ELSE 0

ImportsAddNewEntry(map, value, from) ==
    Append(map, [from |-> from, values |-> <<value>>])

ImportsAdd(map, value, from) ==
    LET i == ImportsIndex(map, from)
    IN  IF i = 0
        THEN Append(map, [from |-> from, values |-> <<value>>])
        ELSE [map EXCEPT ![i].values = Append(@, value)]

RECURSIVE Spaces(_)
\* new Array(indent).fill('    ').join('')
Spaces(n) == IF n <= 0 THEN "" ELSE "    " \o Spaces(n - 1)

\* Code.push(content) with a content, as every caller gives one; a Code
\* object is [source, indent, imports, baseTypes]
CodePush(code, content) ==
    [code EXCEPT !.source = Append(@, Spaces(code.indent) \o content)]

\* a Code whose indentation level is left as it is
IndentKept(code) == code

increaseIndent(code) == [code EXCEPT !.indent = @ + 1]

decreaseIndent(code) == [code EXCEPT !.indent = @ - 1]

RECURSIVE UnshiftImports(_, _)
\* the loop of Code.toString over this.imports: each line is unshifted
UnshiftImports(src, map) ==
    IF map = <<>> THEN src
    ELSE UnshiftImports(
            <<"import { " \o Join(Head(map).values, ", ") \o " } from '"
                \o Head(map).from \o "';">> \o src,
            Tail(map))

BaseTypeImportLine(set) ==
    "import type { " \o Join(set, ", ") \o " } from '@vscode/wasm-component-model';"

WcmImportLine == "import * as $wcm from '@vscode/wasm-component-model';"

\* Code.toString: the source after the unshifts (source.join('\n') is returned)
CodeToString(code) ==
    LET s1 == <<"">> \o code.source
        s2 == UnshiftImports(s1, code.imports)
        s3 == IF Len(code.baseTypes) > 0
              THEN <<BaseTypeImportLine(code.baseTypes)>> \o s2
              ELSE s2
    IN  <<WcmImportLine>> \o s3

\* LocalSymbol and ImportedSymbol
LocalSymbol(name) == [cls |-> "LocalSymbol", name |-> name]

ImportedSymbol(name, from, original) ==
    [cls |-> "ImportedSymbol", name |-> name, from |-> from, original |-> original]

\* getComponentModelName of either class
getComponentModelName(sym) ==
    IF sym.cls = "LocalSymbol"
    THEN "$" \o sym.name
    ELSE IF IsDefined(sym.original)
         THEN sym.from \o ".$cm." \o ValueOf(sym.original)
         ELSE sym.from \o ".$cm." \o sym.name

\* Map.prototype.set on the Map of a Symbols object, a function on its keys
MapSet(map, key, value) ==
    [k \in DOMAIN map \cup {key} |-> IF k = key THEN value ELSE map[k]]

EmptyMap == [k \in {} |-> 0]

\* Symbols.get
SymbolsGet(map, name) == IF name \in DOMAIN map THEN Some(map[name]) ELSE Undefined

----------------------------------------------------------------------------
(* wit2ts: the type printers.  A type node is a record with a `kind` (the  *)
(* name of the visit method it dispatches to).  A printer is              *)
(* [result, baseTypes]: its `result` member and the base types of the     *)
(* Imports object it shares with every other printer.                     *)

U8 == [kind |-> "u8"]
U32 == [kind |-> "u32"]
TupleTy(members) == [kind |-> "Tuple", members |-> members]
ListTy(type) == [kind |-> "List", type |-> type]
OptionTy(type) == [kind |-> "Option", type |-> type]
ResultTy(ok, error) == [kind |-> "Result", ok |-> ok, error |-> error]
BorrowTy(name) == [kind |-> "Borrow", name |-> name]
FuncResult(type) == [kind |-> "FuncResult", type |-> type]
NamedFuncResult(members) == [kind |-> "NamedFuncResult", members |-> members]

PrimitiveKinds ==
    {"u8", "u16", "u32", "u64", "s8", "s16", "s32", "s64",
     "float32", "float64", "string", "bool", "char"}

\* TypeScript.TyPrinter.visitU8 .. visitChar: the result each one sets
TsPrimitive ==
    [u8 |-> "u8", u16 |-> "u16", u32 |-> "u32", u64 |-> "u64",
     s8 |-> "s8", s16 |-> "s16", s32 |-> "s32", s64 |-> "s64",
     float32 |-> "float32", float64 |-> "float64",
     string |-> "string", bool |-> "boolean", char |-> "string"]

\* the visit methods that call imports.addBaseType with their own name
TsImportsBaseType ==
    {"u8", "u16", "u32", "u64", "s8", "s16", "s32", "s64", "float32", "float64"}

\* ComponentModel.TyPrinter.visitU8 .. visitChar
CmPrimitive ==
    [u8 |-> "$wcm.u8", u16 |-> "$wcm.u16", u32 |-> "$wcm.u32", u64 |-> "$wcm.u64",
     s8 |-> "$wcm.s8", s16 |-> "$wcm.s16", s32 |-> "$wcm.s32", s64 |-> "$wcm.s64",
     float32 |-> "$wcm.float32", float64 |-> "$wcm.float64",
     string |-> "$wcm.wstring", bool |-> "$wcm.bool", char |-> "$wcm.char"]

\* the switch of TypeScript.TyPrinter.visitList
TsArrayOf ==
    [u8 |-> "Uint8Array", u16 |-> "Uint16Array", u32 |-> "Uint32Array",
     u64 |-> "BigUint64Array", s8 |-> "Int8Array", s16 |-> "Int16Array",
     s32 |-> "Int32Array", s64 |-> "BigInt64Array",
     float32 |-> "Float32Array", float64 |-> "Float64Array"]

\* the switch of ComponentModel.TyPrinter.visitList
CmArrayOf ==
    [u8 |-> "new $wcm.Uint8ArrayType()", u16 |-> "new $wcm.Uint16ArrayType()",
     u32 |-> "new $wcm.Uint32ArrayType()", u64 |-> "new $wcm.BigUint64ArrayType()",
     s8 |-> "new $wcm.Int8ArrayType();", s16 |-> "new $wcm.Int16ArrayType()",
     s32 |-> "new $wcm.Int32ArrayType()", s64 |-> "new $wcm.BigInt64ArrayType()",
     float32 |-> "new $wcm.Float32ArrayType()",
     float64 |-> "new $wcm.Float64ArrayType()"]

NewPrinter(bt) == [result |-> "", baseTypes |-> bt]

RECURSIVE TsVisit(_, _)
RECURSIVE TsVisitMembers(_, _, _)
RECURSIVE CmVisit(_, _)
RECURSIVE CmVisitMembers(_, _, _, _, _)

\* the loop of TypeScript.TyPrinter.visitTuple: one printer visits every
\* member; yields the elements and the printer
TsVisitMembers(members, printer, elements) ==
    IF members = <<>> THEN [elements |-> elements, printer |-> printer]
    ELSE With(TsVisit(Head(members), printer), LAMBDA after :
            TsVisitMembers(Tail(members), after, Append(elements, after.result)))

\* node.visit(printer, node) for a TypeScript.TyPrinter
TsVisit(node, printer) ==
    CASE node.kind \in PrimitiveKinds ->
            [result |-> TsPrimitive[node.kind],
             baseTypes |-> IF node.kind \in TsImportsBaseType
                           THEN addBaseType(printer.baseTypes, node.kind)
                           ELSE printer.baseTypes]
      [] node.kind = "Identifier" ->
            [result |-> toTs(node), baseTypes |-> printer.baseTypes]
      [] node.kind = "Tuple" ->
            With(TsVisitMembers(node.members, NewPrinter(printer.baseTypes), <<>>),
                 LAMBDA done :
                    [result |-> "[" \o Join(done.elements, ", ") \o "]",
                     baseTypes |-> done.printer.baseTypes])
      [] node.kind = "List" ->
            With(TsVisit(node.type, NewPrinter(printer.baseTypes)), LAMBDA tyVisitor :
                    [result |-> IF tyVisitor.result \in DOMAIN TsArrayOf
                                THEN TsArrayOf[tyVisitor.result]
                                ELSE tyVisitor.result \o "[]",
                     baseTypes |-> tyVisitor.baseTypes])
      [] node.kind = "Option" ->
            With(TsVisit(node.type, NewPrinter(printer.baseTypes)), LAMBDA tyVisitor :
                    [result |-> "option<" \o tyVisitor.result \o ">",
                     baseTypes |-> addBaseType(tyVisitor.baseTypes, "option")])
      [] node.kind = "Result" ->
            With(IF IsDefined(node.ok)
                 THEN TsVisit(ValueOf(node.ok), NewPrinter(printer.baseTypes))
                 ELSE NewPrinter(printer.baseTypes), LAMBDA v1 :
            With(IF IsDefined(node.error) THEN TsVisit(ValueOf(node.error), v1) ELSE v1,
                 LAMBDA v2 :
                    [result |-> "result<"
                                \o (IF IsDefined(node.ok) THEN v1.result ELSE "void")
                                \o ", "
                                \o (IF IsDefined(node.error) THEN v2.result ELSE "void")
                                \o ">",
                     baseTypes |-> addBaseType(v2.baseTypes, "result")]))
      [] node.kind = "Borrow" ->
            With(TsVisit(node.name, NewPrinter(printer.baseTypes)), LAMBDA tyVisitor :
                    [result |-> "borrow<" \o tyVisitor.result \o ">",
                     baseTypes |-> addBaseType(tyVisitor.baseTypes, "borrow")])

\* the static TypeScript.TyPrinter.do(node, imports): a new printer
TsDo(node, bt) == TsVisit(node, NewPrinter(bt))

\* the member TypeScript.TyPrinter.do(node): visits, returns the result and
\* resets this.result to ''
TsMemberDo(node, printer) ==
    With(TsVisit(node, printer), LAMBDA after :
            [text |-> after.result, printer |-> [after EXCEPT !.result = ""]])

\* the loop of ComponentModel.TyPrinter.visitTuple: tyPrinter and
\* cmTyPrinter visit every member in turn and share the Imports object
CmVisitMembers(members, tyPrinter, cmTyPrinter, tsElements, cmElements) ==
    IF members = <<>>
    THEN [tsElements |-> tsElements, cmElements |-> cmElements,
          baseTypes |-> cmTyPrinter.baseTypes]
    ELSE With(TsVisit(Head(members), tyPrinter), LAMBDA ts :
         With(CmVisit(Head(members), [cmTyPrinter EXCEPT !.baseTypes = ts.baseTypes]),
              LAMBDA cm :
                CmVisitMembers(Tail(members),
                               [ts EXCEPT !.baseTypes = cm.baseTypes], cm,
                               Append(tsElements, ts.result),
                               Append(cmElements, cm.result))))

\* ComponentModel.TyPrinter.visitBorrow: returns without setting the result
CmVisitBorrow(node, printer) == printer

\* node.visit(printer, node) for a ComponentModel.TyPrinter
CmVisit(node, printer) ==
    CASE node.kind \in PrimitiveKinds ->
            [result |-> CmPrimitive[node.kind], baseTypes |-> printer.baseTypes]
      [] node.kind = "Identifier" ->
            [result |-> "$" \o toTs(node), baseTypes |-> printer.baseTypes]
      [] node.kind = "Tuple" ->
            With(CmVisitMembers(node.members, NewPrinter(printer.baseTypes),
                                NewPrinter(printer.baseTypes), <<>>, <<>>),
                 LAMBDA done :
                    [result |-> "new $wcm.TupleType<[" \o Join(done.tsElements, ", ")
                                \o "]>([" \o Join(done.cmElements, ", ") \o "])",
                     baseTypes |-> done.baseTypes])
      [] node.kind = "List" ->
            With(TsDo(node.type, printer.baseTypes), LAMBDA ts :
                IF ts.result \in DOMAIN CmArrayOf
                THEN [result |-> CmArrayOf[ts.result], baseTypes |-> ts.baseTypes]
                ELSE With(CmVisit(node.type, NewPrinter(ts.baseTypes)), LAMBDA cm :
                        [result |-> "new $wcm.ListType<" \o ts.result \o ">("
                                    \o cm.result \o ")",
                         baseTypes |-> cm.baseTypes]))
      [] node.kind = "Option" ->
            With(TsDo(node.type, printer.baseTypes), LAMBDA ts :
            With(CmVisit(node.type, NewPrinter(ts.baseTypes)), LAMBDA cm :
                    [result |-> "new $wcm.OptionType<" \o ts.result \o ">("
                                \o cm.result \o ")",
                     baseTypes |-> cm.baseTypes]))
      [] node.kind = "Result" ->
            With(IF IsDefined(node.ok)
                 THEN TsVisit(ValueOf(node.ok), NewPrinter(printer.baseTypes))
                 ELSE NewPrinter(printer.baseTypes), LAMBDA t1 :
            With(IF IsDefined(node.ok)
                 THEN CmVisit(ValueOf(node.ok), NewPrinter(t1.baseTypes))
                 ELSE NewPrinter(printer.baseTypes), LAMBDA c1 :
            With(IF IsDefined(node.error)
                 THEN TsVisit(ValueOf(node.error), [t1 EXCEPT !.baseTypes = c1.baseTypes])
                 ELSE [t1 EXCEPT !.baseTypes = c1.baseTypes], LAMBDA t2 :
            With(IF IsDefined(node.error)
                 THEN CmVisit(ValueOf(node.error), [c1 EXCEPT !.baseTypes = t2.baseTypes])
                 ELSE [c1 EXCEPT !.baseTypes = t2.baseTypes], LAMBDA c2 :
                    [result |-> "new $wcm.ResultType<"
                                \o (IF IsDefined(node.ok) THEN t1.result ELSE "void")
                                \o ", "
                                \o (IF IsDefined(node.error) THEN t2.result ELSE "void")
                                \o ">("
                                \o (IF IsDefined(node.ok) THEN c1.result ELSE "undefined")
                                \o ", "
                                \o (IF IsDefined(node.error) THEN c2.result
                                    ELSE "undefined")
                                \o ")",
                     baseTypes |-> c2.baseTypes]))))
      [] node.kind = "Borrow" -> CmVisitBorrow(node, printer)

\* the static ComponentModel.TyPrinter.do(node, imports)
CmDo(node, bt) == CmVisit(node, NewPrinter(bt))

\* TypeScript.FuncResultPrinter.do(node, imports)
TsFuncResultDo(node, bt) ==
    IF node.kind = "FuncResult" THEN TsDo(node.type, bt) ELSE NewPrinter(bt)

\* ComponentModel.FuncResultPrinter.do(node, imports)
CmFuncResultDo(node, bt) ==
    IF node.kind = "FuncResult" THEN CmDo(node.type, bt) ELSE NewPrinter(bt)

----------------------------------------------------------------------------
(* wit2ts: the ComponentModel emitters and ComponentModelEntries.          *)

\* a record descriptor with the fields in reverse order
CmRecordReversed(name, fields) ==
    [emitter |-> "record", name |-> name,
     fields |-> [i \in 1..Len(fields) |-> fields[Len(fields) + 1 - i]]]

CmRecord(name, fields) == [emitter |-> "record", name |-> name, fields |-> fields]
CmType(name, type, visibility) ==
    [emitter |-> "type", name |-> name, type |-> type, visibility |-> visibility]
CmFunctionSignature(name, parameters, returnType) ==
    [emitter |-> "functionSignature", name |-> name, parameters |-> parameters,
     returnType |-> returnType]
CmEnumeration(name, cases) == [emitter |-> "enumeration", name |-> name, cases |-> cases]
CmFlags(name, values) == [emitter |-> "flags", name |-> name, values |-> values]
\* a variant descriptor that keeps the first case only
CmVariantOfFirst(name, cases) ==
    [emitter |-> "variant", name |-> name, cases |-> SubSeq(cases, 1, 1)]

CmVariant(name, cases) == [emitter |-> "variant", name |-> name, cases |-> cases]

\* template literal ${x} of a string | undefined
TextOrUndefined(o) == IF IsDefined(o) THEN ValueOf(o) ELSE "undefined"

\* record.emit and functionSignature.emit: `['${name}', ${type}]`
PairTexts(pairs) ==
    [i \in 1..Len(pairs) |-> "['" \o pairs[i][1] \o "', " \o pairs[i][2] \o "]"]

\* emit(code) of the ComponentModel emitter classes
CmEmit(e, code) ==
    CASE e.emitter = "record" ->
            LET c1 == CodePush(code, "export const $" \o e.name
                                \o " = new $wcm.RecordType<" \o e.name \o ">([")
                c2 == CodePush(increaseIndent(c1), Join(PairTexts(e.fields), ", "))
            IN  CodePush(decreaseIndent(c2), "]);")
      [] e.emitter = "type" ->
            IF e.visibility = "public"
            THEN CodePush(code, "export const $" \o e.name
                    \o ": $wcm.ComponentModelType<" \o e.name \o "> = " \o e.type \o ";")
            ELSE CodePush(code, "const $" \o e.name
                    \o ": $wcm.ComponentModelType<" \o e.name \o "> = " \o e.type \o ";")
      [] e.emitter = "functionSignature" ->
            IF Len(e.parameters) = 0
            THEN CodePush(code, "export const $" \o e.name
                    \o " = new $wcm.FunctionSignature('" \o e.name \o "', [], "
                    \o TextOrUndefined(e.returnType) \o ");")
            ELSE LET c1 == CodePush(code, "export const $" \o e.name
                                \o " = new $wcm.FunctionSignature('" \o e.name \o "', [")
                     c2 == CodePush(increaseIndent(c1),
                                    Join(PairTexts(e.parameters), ", "))
                     c3 == decreaseIndent(c2)
                 IN  IF IsDefined(e.returnType)
                     THEN CodePush(c3, "], " \o ValueOf(e.returnType) \o ");")
                     ELSE CodePush(c3, "]);")
      [] e.emitter = "enumeration" ->
            CodePush(code, "export const $" \o e.name \o " = new $wcm.EnumType<"
                \o e.name \o ">(" \o NumberText(e.cases) \o ");")
      [] e.emitter = "flags" ->
            CodePush(code, "export const $" \o e.name \o " = new $wcm.FlagsType<"
                \o e.name \o ">(["
                \o Join([i \in 1..Len(e.values) |-> "'" \o e.values[i] \o "'"], ", ")
                \o "]);")
      [] e.emitter = "variant" ->
            CodePush(code, "export const $" \o e.name \o " = new $wcm.VariantType<"
                \o e.name \o ", " \o e.name \o "._ct, " \o e.name \o "._vt>(["
                \o Join([i \in 1..Len(e.cases) |-> TextOrUndefined(e.cases[i])], ", ")
                \o "], " \o e.name \o "._ctor);")

\* the comparator handed to Array.prototype.sort by ComponentModelEntries.emit
CompareSwapped(a, b) ==
    LET aIsFunction == a.emitter = "functionSignature"
        bIsFunction == b.emitter = "functionSignature"
    IN  IF aIsFunction /\ ~bIsFunction THEN -1
        ELSE IF ~aIsFunction /\ bIsFunction THEN 1
        ELSE 0

Compare(a, b) ==
    LET aIsFunction == a.emitter = "functionSignature"
        bIsFunction == b.emitter = "functionSignature"
    IN  IF aIsFunction /\ ~bIsFunction THEN 1
        ELSE IF ~aIsFunction /\ bIsFunction THEN -1
        ELSE 0

RECURSIVE InsertSorted(_, _)
\* one insertion of a stable sort: x goes before the trailing elements that
\* compare greater than x
InsertSorted(prefix, x) ==
    IF prefix # <<>> /\ Compare(prefix[Len(prefix)], x) > 0
    THEN Append(InsertSorted(SubSeq(prefix, 1, Len(prefix) - 1), x),
                prefix[Len(prefix)])
    ELSE Append(prefix, x)

RECURSIVE SortFrom(_, _)
SortFrom(done, rest) ==
    IF rest = <<>> THEN done ELSE SortFrom(InsertSorted(done, Head(rest)), Tail(rest))

\* Array.prototype.sort with the comparator above: the sort is stable
SortEntries(entries) == SortFrom(<<>>, entries)

RECURSIVE CmEmitAll(_, _)
CmEmitAll(entries, code) ==
    IF entries = <<>> \/ ~Evaluated(code.source) THEN code
    ELSE CmEmitAll(Tail(entries), CmEmit(Head(entries), code))

\* ComponentModelEntries.emit
ComponentModelEntriesEmit(entries, code) == CmEmitAll(SortEntries(entries), code)

----------------------------------------------------------------------------
(* wit2ts: the TypeScript emitters and TypeScriptEntries.                  *)

Comment(value) == [kind |-> "Comment", value |-> value]
CommentBlock(members) == [kind |-> "CommentBlock", members |-> members]

\* node.comments && node.comments[0]
FirstComment(node) ==
    IF "comments" \in DOMAIN node /\ Len(node.comments) > 0
    THEN Some(node.comments[1]) ELSE Undefined

RECURSIVE PushComments(_, _)
PushComments(code, members) ==
    IF members = <<>> \/ ~Evaluated(code.source) THEN code
    ELSE PushComments(CodePush(code, ReplaceFirst(Head(members).value, "///", " *")),
                      Tail(members))

\* TypeScript.Emitter.emitDocComment
emitDocComment(code, node) ==
    LET comment == FirstComment(node) IN
    IF ~IsDefined(comment) THEN code
    ELSE IF ValueOf(comment).kind = "Comment"
    THEN CodePush(CodePush(CodePush(code, "/**"),
                           ReplaceFirst(ValueOf(comment).value, "///", " *")),
                  " */")
    ELSE IF ValueOf(comment).kind = "CommentBlock" /\ Len(ValueOf(comment).members) > 0
    THEN CodePush(PushComments(CodePush(code, "/**"), ValueOf(comment).members), " */")
    ELSE code

TsEntry(emitter, node) == [emitter |-> emitter, node |-> node, visibility |-> "public"]

WithBaseTypes(code, bt) == [code EXCEPT !.baseTypes = bt]

\* TypeScript.type.emit
TsTypeEmit(e, code) ==
    With(emitDocComment(code, e.node), LAMBDA c1 :
    With(TsDo(e.node.type, c1.baseTypes), LAMBDA ty :
        CodePush(WithBaseTypes(c1, ty.baseTypes),
                 (IF e.visibility = "public" THEN "export type " ELSE "type ")
                    \o toTs(e.node.name) \o " = " \o ty.result \o ";")))

\* one turn of the loop of TypeScript.namedImports.emit
NamedImportsMember(code, member, tsName) ==
    IF member.kind = "Identifier"
    THEN CodePush(code, "type " \o toTs(member) \o " = " \o tsName \o "." \o toTs(member))
    ELSE IF member.kind = "RenameItem"
    THEN CodePush(code, "type " \o toTs(member.to) \o " = " \o tsName
                        \o "." \o toTs(member.from))
    ELSE code

RECURSIVE NamedImportsMembers(_, _, _)
NamedImportsMembers(code, members, tsName) ==
    IF members = <<>> \/ ~Evaluated(code.source) THEN code
    ELSE NamedImportsMembers(NamedImportsMember(code, Head(members), tsName),
                             Tail(members), tsName)

\* TypeScript.namedImports.emit
TsNamedImportsEmit(e, code) ==
    With(emitDocComment(code, e.node), LAMBDA c1 :
        NamedImportsMembers(
            [c1 EXCEPT !.imports = ImportsAdd(@, toTs(e.node.name),
                                              "./" \o e.node.name.value)],
            e.node.members, toTs(e.node.name)))

\* an empty line between two members, none after the last
PushSeparator(code, i, members) ==
    IF i < Len(members) THEN CodePush(code, "") ELSE code

RECURSIVE LiteralMembers(_, _, _, _)
\* the loop of TypeScript.literal.emit; tyPrinter is the printer it shares
LiteralMembers(code, members, i, tyPrinter) ==
    IF i > Len(members) \/ ~Evaluated(code.source) THEN code
    ELSE With(emitDocComment(code, members[i]), LAMBDA c1 :
         With(TsMemberDo(members[i].type, [tyPrinter EXCEPT !.baseTypes = c1.baseTypes]),
              LAMBDA done :
                LiteralMembers(
                    PushSeparator(
                        CodePush(WithBaseTypes(c1, done.printer.baseTypes),
                                 toTs(members[i].name) \o ": " \o done.text \o ";"),
                        i, members),
                    members, i + 1, done.printer)))

\* TypeScript.literal.emit
TsLiteralEmit(e, code) ==
    With(CodePush(emitDocComment(code, e.node),
                  "export interface " \o toTs(e.node.name) \o " extends $wcm.JRecord {"),
         LAMBDA c2 :
            CodePush(decreaseIndent(LiteralMembers(increaseIndent(c2), e.node.members, 1,
                                                   NewPrinter(c2.baseTypes))),
                     "}"))

RECURSIVE SignatureParams(_, _, _)
\* the loop of TypeScript.functionSignature.emit: [elements, printer]
SignatureParams(params, tyPrinter, elements) ==
    IF params = <<>> THEN [elements |-> elements, printer |-> tyPrinter]
    ELSE With(TsMemberDo(Head(params).type, tyPrinter), LAMBDA done :
            SignatureParams(Tail(params), done.printer,
                Append(elements, toTs(Head(params).name) \o ": " \o done.text)))

\* TypeScript.functionSignature.emit
TsFunctionSignatureEmit(e, code) ==
    With(emitDocComment(code, e.node), LAMBDA c1 :
    With(SignatureParams(e.node.signature.params.members, NewPrinter(c1.baseTypes), <<>>),
         LAMBDA params :
    With(IF IsDefined(e.node.signature.result)
         THEN TsFuncResultDo(ValueOf(e.node.signature.result), params.printer.baseTypes)
         ELSE [result |-> "void", baseTypes |-> params.printer.baseTypes],
         LAMBDA ret :
            CodePush(WithBaseTypes(c1, ret.baseTypes),
                "export declare function " \o toTs(e.node.name) \o "("
                \o Join(params.elements, ", ") \o "): " \o ret.result \o ";"))))

\* the line of a case whose ordinal is its position counted from one
EnumMemberFromOne(member, i) == toTs(member) \o " = " \o NumberText(i) \o ","

\* `${Names.toTs(members[i])} = ${i},` (i is counted from 1 here)
EnumMember(member, i) == toTs(member) \o " = " \o NumberText(i - 1) \o ","

RECURSIVE EnumMembers(_, _, _)
EnumMembers(code, members, i) ==
    IF i > Len(members) \/ ~Evaluated(code.source) THEN code
    ELSE EnumMembers(
            PushSeparator(
                CodePush(emitDocComment(code, members[i]), EnumMember(members[i], i)),
                i, members),
            members, i + 1)

\* TypeScript.enumeration.emit
TsEnumerationEmit(e, code) ==
    CodePush(
        decreaseIndent(
            EnumMembers(
                increaseIndent(CodePush(emitDocComment(code, e.node),
                                        "export enum " \o toTs(e.node.name) \o " {")),
                e.node.members, 1)),
        "}")

RECURSIVE FlagsMembers(_, _, _)
FlagsMembers(code, members, i) ==
    IF i > Len(members) \/ ~Evaluated(code.source) THEN code
    ELSE FlagsMembers(
            PushSeparator(
                CodePush(emitDocComment(code, members[i]),
                         toTs(members[i]) \o ": boolean;"),
                i, members),
            members, i + 1)

\* TypeScript.flags.emit
TsFlagsEmit(e, code) ==
    CodePush(
        decreaseIndent(
            FlagsMembers(
                increaseIndent(CodePush(emitDocComment(code, e.node),
                                        "export interface " \o toTs(e.node.name)
                                        \o " extends $wcm.JFlags {")),
                e.node.members, 1)),
        "}")

\* consecutive code.push calls at one indentation
PushAll(code, lines) ==
    [code EXCEPT !.source =
        @ \o [i \in 1..Len(lines) |-> Spaces(code.indent) \o lines[i]]]

\* a body pushed between increaseIndent and decreaseIndent, then `}`
PushBlock(code, head, body) ==
    CodePush(decreaseIndent(PushAll(increaseIndent(CodePush(code, head)), body)), "}")

RECURSIVE VariantTypes(_, _, _)
\* the first loop of TypeScript.variant.emit: the printed type of every
\* member that has one, [types, printer]
VariantTypes(members, tyPrinter, types) ==
    IF members = <<>> THEN [types |-> types, printer |-> tyPrinter]
    ELSE IF IsDefined(Head(members).type)
    THEN With(TsMemberDo(ValueOf(Head(members).type), tyPrinter), LAMBDA done :
            VariantTypes(Tail(members), done.printer, Append(types, Some(done.text))))
    ELSE VariantTypes(Tail(members), tyPrinter, Append(types, Undefined))

\* the shape of a case that never has a `value` member
VariantCaseTypeWithoutValue(name, type) ==
    "export type " \o name \o " = { readonly case: typeof " \o name \o " } & _common;"

\* `export type ${name} = { readonly case: typeof ${name}[; readonly value:
\* ${type}] } & _common;`
VariantCaseType(name, type) ==
    "export type " \o name \o " = { readonly case: typeof " \o name
        \o (IF IsDefined(type) THEN "; readonly value: " \o ValueOf(type) ELSE "")
        \o " } & _common;"

RECURSIVE VariantCases(_, _, _, _, _)
\* the second loop: tag constant, case type and an empty line per case
VariantCases(code, members, names, types, i) ==
    IF i > Len(names) \/ ~Evaluated(code.source) THEN code
    ELSE VariantCases(
            CodePush(
                CodePush(
                    CodePush(emitDocComment(code, members[i]),
                             "export const " \o names[i] \o " = "
                                \o NumberText(i - 1) \o ";"),
                    VariantCaseType(names[i], types[i])),
                ""),
            members, names, types, i + 1)

\* the printed payload types alone
VariantPayloadTypes(types) ==
    LET defined == SelectSeq(types, LAMBDA t : IsDefined(t))
    IN  [i \in 1..Len(defined) |-> ValueOf(defined[i])]

\* the items of the `_vt` union
VariantValueTypes(types) ==
    LET defined == SelectSeq(types, LAMBDA t : IsDefined(t))
        items == [i \in 1..Len(defined) |-> ValueOf(defined[i])]
    IN  IF \E i \in 1..Len(types) : ~IsDefined(types[i])
        THEN Append(items, "undefined") ELSE items

RECURSIVE VariantConstructors(_, _, _, _)
\* the third loop: the `_<case>` constructor functions
VariantConstructors(code, names, types, i) ==
    IF i > Len(names) \/ ~Evaluated(code.source) THEN code
    ELSE VariantConstructors(
            IF IsDefined(types[i])
            THEN PushBlock(code,
                    "export function _" \o names[i] \o "(value: "
                        \o ValueOf(types[i]) \o "): " \o names[i] \o " {",
                    <<"return new VariantImpl(" \o names[i] \o ", value) as "
                        \o names[i] \o ";">>)
            ELSE PushBlock(code,
                    "export function _" \o names[i] \o "(): " \o names[i] \o " {",
                    <<"return new VariantImpl(" \o names[i] \o ", undefined) as "
                        \o names[i] \o ";">>),
            names, types, i + 1)

RECURSIVE VariantGuards(_, _, _)
\* the last loop: the type guards of class VariantImpl
VariantGuards(code, names, variantName) ==
    IF names = <<>> \/ ~Evaluated(code.source) THEN code
    ELSE VariantGuards(
            PushBlock(code, Head(names) \o "(): this is " \o Head(names) \o " {",
                      <<"return this._case === " \o variantName \o "."
                            \o Head(names) \o ";">>),
            Tail(names), variantName)

\* TypeScript.variant.emit, from the union types up to the constructors
VariantUnion(code, variantName, names, types) ==
    VariantConstructors(
        PushBlock(
            PushAll(code,
                <<"export type _ct = "
                    \o Join([i \in 1..Len(names) |-> "typeof " \o names[i]], " | ") \o ";",
                  "export type _vt = " \o Join(VariantValueTypes(types), " | ") \o ";",
                  "type _common = Omit<VariantImpl, 'case' | 'value'>;">>),
            "export function _ctor(c: _ct, v: _vt): " \o variantName \o " {",
            <<"return new VariantImpl(c, v) as " \o variantName \o ";">>),
        names, types, 1)

\* TypeScript.variant.emit: class VariantImpl, up to the getters
VariantImpl(code) ==
    PushBlock(
        PushBlock(
            PushBlock(
                PushAll(increaseIndent(CodePush(code, "class VariantImpl {")),
                        <<"private readonly _case: _ct;",
                          "private readonly _value?: _vt;">>),
                "constructor(c: _ct, value: _vt) {",
                <<"this._case = c;", "this._value = value;">>),
            "get case(): _ct {", <<"return this._case;">>),
        "get value(): _vt {", <<"return this._value;">>)

\* TypeScript.variant.emit, after the doc comment and the first loop
VariantNamespace(code, variantName, members, names, types) ==
    With(VariantCases(increaseIndent(CodePush(code, "export namespace "
                                                    \o variantName \o " {")),
                      members, names, types, 1), LAMBDA c3 :
    With(VariantUnion(c3, variantName, names, types), LAMBDA c6 :
    With(VariantImpl(c6), LAMBDA c11 :
    With(VariantGuards(c11, names, variantName), LAMBDA c12 :
        CodePush(
            CodePush(decreaseIndent(CodePush(decreaseIndent(c12), "}")), "}"),
            "export type " \o variantName \o " = "
                \o Join([i \in 1..Len(names) |-> variantName \o "." \o names[i]],
                        " | "))))))

\* TypeScript.variant.emit
TsVariantEmit(e, code) ==
    With(emitDocComment(code, e.node), LAMBDA c1 :
    With(VariantTypes(e.node.members, NewPrinter(c1.baseTypes), <<>>), LAMBDA printed0 :
        VariantNamespace(WithBaseTypes(c1, printed0.printer.baseTypes),
                         toTs(e.node.name), e.node.members,
                         [i \in 1..Len(e.node.members) |-> toTs(e.node.members[i].name)],
                         printed0.types)))

\* emit(code) of the TypeScript emitter classes
TsEmit(e, code) ==
    CASE e.emitter = "type" -> TsTypeEmit(e, code)
      [] e.emitter = "namedImports" -> TsNamedImportsEmit(e, code)
      [] e.emitter = "literal" -> TsLiteralEmit(e, code)
      [] e.emitter = "functionSignature" -> TsFunctionSignatureEmit(e, code)
      [] e.emitter = "enumeration" -> TsEnumerationEmit(e, code)
      [] e.emitter = "flags" -> TsFlagsEmit(e, code)
      [] e.emitter = "variant" -> TsVariantEmit(e, code)

RECURSIVE TypeScriptEntriesEmitFrom(_, _, _)
TypeScriptEntriesEmitFrom(entries, i, code) ==
    IF i > Len(entries) \/ ~Evaluated(code.source) THEN code
    ELSE TypeScriptEntriesEmitFrom(entries, i + 1,
                                   PushSeparator(TsEmit(entries[i], code), i, entries))

\* TypeScriptEntries.emit
TypeScriptEntriesEmit(entries, code) == TypeScriptEntriesEmitFrom(entries, 1, code)

----------------------------------------------------------------------------
(* wit2ts: the items a walk visits.                                        *)

RenameItem(from, to) == [kind |-> "RenameItem", from |-> from, to |-> to]
NamedImports(name, members) ==
    [kind |-> "NamedImports", name |-> name, members |-> members]
UseItem(importItem) == [kind |-> "UseItem", importItem |-> importItem]
TypeItem(name, type) ==
    [kind |-> "TypeItem", name |-> Identifier(name), type |-> type, comments |-> <<>>]
Member(name, type) == [name |-> Identifier(name), type |-> type, comments |-> <<>>]
RecordItem(name, members, comments) ==
    [kind |-> "RecordItem", name |-> Identifier(name), members |-> members,
     comments |-> comments]
FuncItem(name, params, result) ==
    [kind |-> "FuncItem", name |-> Identifier(name),
     signature |-> [params |-> [members |-> params], result |-> result],
     comments |-> <<>>]
EnumItem(name, members) ==
    [kind |-> "EnumItem", name |-> Identifier(name), members |-> members,
     comments |-> <<>>]
FlagsItem(name, members) ==
    [kind |-> "FlagsItem", name |-> Identifier(name), members |-> members,
     comments |-> <<>>]
VariantItem(name, members) ==
    [kind |-> "VariantItem", name |-> Identifier(name), members |-> members,
     comments |-> <<>>]

\* the name of the i-th interface of the document
InterfaceNameOf(i) == IF i % 2 = 1 THEN "types" ELSE "wasi-io"

UseItems ==
    {UseItem(NamedImports(Identifier("types"),
                          <<Identifier("t"),
                            RenameItem(Identifier("r"), Identifier("my-r"))>>)),
     UseItem(NamedImports(Identifier("wasi-io"), <<Identifier("s")>>)),
     UseItem(Identifier("types")),
     UseItem(RenameItem(Identifier("types"), Identifier("ty")))}

TypeItems ==
    {TypeItem("t", U32),
     TypeItem("bytes", ListTy(U8))}

RecordItems ==
    {RecordItem("r", <<Member("f", Identifier("t")), Member("size", U32)>>,
                <<Comment("/// a record")>>)}

FuncItems ==
    {FuncItem("f", <<Member("p", Identifier("r"))>>,
              Some(FuncResult(Identifier("t")))),
     FuncItem("g", <<>>, Undefined)}

EnumItems == {EnumItem("e", <<Identifier("x"), Identifier("y")>>)}

FlagsItems == {FlagsItem("fl", <<Identifier("read"), Identifier("write")>>)}

VariantItems ==
    {VariantItem("va", <<Member("some", Some(U32)), Member("none", Undefined)>>)}

\* The items of a walk over one declaration: every enum, variant and record
\* of up to MaxCases cases or fields over a few types.
MaxCases == 3
MaxMembers == 1

CaseNames == <<"a", "b-c", "in", "d", "e">>
Payloads == {Undefined, Some(U32), Some([kind |-> "string"]), Some(Identifier("t"))}
FieldTypes == {U32, Identifier("t"), OptionTy([kind |-> "string"])}

CasesOver(types) ==
    UNION {{[i \in 1..n |-> Member(CaseNames[i], f[i])] : f \in [1..n -> types]} :
           n \in 1..MaxCases}

DeclaredEnums ==
    {EnumItem("e", [i \in 1..n |-> Identifier(CaseNames[i])]) : n \in 1..MaxCases}
DeclaredVariants == {VariantItem("va", members) : members \in CasesOver(Payloads)}
DeclaredRecords == {RecordItem("r", members, <<>>) : members \in CasesOver(FieldTypes)}

----------------------------------------------------------------------------
(* wit2ts: the DocumentVisitor.                                            *)

\* the InterfaceData that visitInterfaceItem pushes
NewInterfaceData ==
    [symbols |-> EmptyMap, typeScriptEntries |-> <<>>,
     componentModelEntries |-> <<>>, exports |-> <<>>]

\* this.interfaceData.push(...)
PushInterfaceData(stack, data) == Append(stack, data)

\* this.interfaceData.pop(): the stack that is left
PopKept(stack) == stack

PopInterfaceData(stack) == SubSeq(stack, 1, Len(stack) - 1)

\* a lookup that makes up an InterfaceData when the stack is empty
getInterfaceDataOrNew(stack) ==
    IF Len(stack) > 0 THEN Some(stack[Len(stack)]) ELSE Some(NewInterfaceData)

\* getInterfaceData: the top of the stack, or undefined (it then throws)
getInterfaceData(stack) ==
    IF Len(stack) > 0 THEN Some(stack[Len(stack)]) ELSE Undefined

\* The handlers read and write this.interfaceData and this.code.imports.
\* A visitor is [interfaceData, imports, baseTypes, failed]: `failed` says
\* that the handler threw, after the writes made before the throw.
TheVisitor ==
    [interfaceData |-> interfaceData, imports |-> imports,
     baseTypes |-> baseTypes, failed |-> FALSE]

\* a handler that returns where it should throw
Returned(v) == v

\* throw new Error(...): the handler is left with what it wrote so far
Thrown(v) == [v EXCEPT !.failed = TRUE]

\* the visitor with the top of its stack replaced
WithTop(v, data) == [v EXCEPT !.interfaceData[Len(v.interfaceData)] = data]

AddEntries(data, tsEntry, cmEntries) ==
    [data EXCEPT !.typeScriptEntries = Append(@, tsEntry),
                 !.componentModelEntries = @ \o cmEntries]

\* the loop of visitUseItem over importItem.members
UseMemberEntries(members, tsName) ==
    LET named == SelectSeq(members,
                    LAMBDA m : m.kind = "Identifier" \/ m.kind = "RenameItem")
    IN  [i \in 1..Len(named) |->
            IF named[i].kind = "Identifier"
            THEN CmType(toTs(named[i]),
                        tsName \o ".$cm.$" \o toTs(named[i]), "private")
            ELSE CmType(toTs(named[i].to),
                        tsName \o ".$cm.$" \o toTs(named[i].from), "private")]

\* a handler that drops the use-clause and returns
visitUseItemDropped(v, item) == v

visitUseItem(v, item) ==
    LET top == getInterfaceData(v.interfaceData)
        importItem == item.importItem
    IN  IF ~IsDefined(top) THEN Thrown(v)
        ELSE IF importItem.kind = "Identifier" THEN Thrown(v)
        ELSE IF importItem.kind = "RenameItem" THEN Thrown(v)
        ELSE IF importItem.kind = "NamedImports"
        THEN [WithTop(v, AddEntries(ValueOf(top), TsEntry("namedImports", importItem),
                            UseMemberEntries(importItem.members, toTs(importItem.name))))
                EXCEPT !.imports = ImportsAdd(@, toTs(importItem.name),
                                              "./" \o importItem.name.value)]
        ELSE v

visitTypeItem(v, item) ==
    LET top == getInterfaceData(v.interfaceData)
    IN  IF ~IsDefined(top) THEN Thrown(v)
        ELSE With(CmDo(item.type, v.baseTypes), LAMBDA cm :
                [WithTop(v, AddEntries(ValueOf(top), TsEntry("type", item),
                                       <<CmType(toTs(item.name), cm.result, "public")>>))
                    EXCEPT !.baseTypes = cm.baseTypes])

RECURSIVE RecordFields(_, _, _)
\* the loop of visitRecordItem: [fields, baseTypes]
RecordFields(members, bt, fields) ==
    IF members = <<>> THEN [fields |-> fields, baseTypes |-> bt]
    ELSE With(CmDo(Head(members).type, bt), LAMBDA cm :
            RecordFields(Tail(members), cm.baseTypes,
                         Append(fields, <<toTs(Head(members).name), cm.result>>)))

visitRecordItem(v, node) ==
    LET top == getInterfaceData(v.interfaceData)
    IN  With(RecordFields(node.members, v.baseTypes, <<>>), LAMBDA done :
            IF ~IsDefined(top) THEN Thrown([v EXCEPT !.baseTypes = done.baseTypes])
            ELSE WithTop([v EXCEPT !.baseTypes = done.baseTypes],
                         AddEntries(ValueOf(top), TsEntry("literal", node),
                                    <<CmRecord(toTs(node.name), done.fields)>>)))

RECURSIVE FuncParameters(_, _, _, _)
\* the loop of visitFuncItem: tyPrinter and cmTyPrinter visit every
\* parameter type; [parameters, baseTypes]
FuncParameters(params, tyPrinter, cmTyPrinter, parameters) ==
    IF params = <<>>
    THEN [parameters |-> parameters, baseTypes |-> cmTyPrinter.baseTypes]
    ELSE With(TsVisit(Head(params).type, tyPrinter), LAMBDA ts :
         With(CmVisit(Head(params).type, [cmTyPrinter EXCEPT !.baseTypes = ts.baseTypes]),
              LAMBDA cm :
                FuncParameters(Tail(params), [ts EXCEPT !.baseTypes = cm.baseTypes], cm,
                               Append(parameters, <<toTs(Head(params).name), cm.result>>))))

visitFuncItem(v, node) ==
    LET top == getInterfaceData(v.interfaceData)
        tsName == toTs(node.name)
    IN  IF ~IsDefined(top) THEN Thrown(v)
        ELSE With(FuncParameters(node.signature.params.members, NewPrinter(v.baseTypes),
                                 NewPrinter(v.baseTypes), <<>>), LAMBDA params :
             With(IF IsDefined(node.signature.result)
                  THEN CmFuncResultDo(ValueOf(node.signature.result), params.baseTypes)
                  ELSE NewPrinter(params.baseTypes), LAMBDA ret :
                [WithTop(v,
                    [AddEntries(ValueOf(top), TsEntry("functionSignature", node),
                        <<CmFunctionSignature(tsName, params.parameters,
                            IF IsDefined(node.signature.result)
                            THEN Some(ret.result) ELSE Undefined)>>)
                        EXCEPT !.exports = Append(@, tsName)])
                    EXCEPT !.baseTypes = ret.baseTypes]))

visitEnumItem(v, node) ==
    LET top == getInterfaceData(v.interfaceData)
    IN  IF ~IsDefined(top) THEN Thrown(v)
        ELSE WithTop(v, AddEntries(ValueOf(top), TsEntry("enumeration", node),
                            <<CmEnumeration(toTs(node.name), Len(node.members))>>))

visitFlagsItem(v, node) ==
    LET top == getInterfaceData(v.interfaceData)
    IN  With([v EXCEPT !.baseTypes = addBaseType(@, "flags")], LAMBDA v1 :
            IF ~IsDefined(top) THEN Thrown(v1)
            ELSE WithTop(v1, AddEntries(ValueOf(top), TsEntry("flags", node),
                    <<CmFlags(toTs(node.name),
                              [i \in 1..Len(node.members) |-> toTs(node.members[i])])>>)))

RECURSIVE VariantMembers(_, _, _)
\* the loop of visitVariantItem: [cases, baseTypes]
VariantMembers(members, bt, cases) ==
    IF members = <<>> THEN [cases |-> cases, baseTypes |-> bt]
    ELSE IF IsDefined(Head(members).type)
    THEN With(CmDo(ValueOf(Head(members).type), bt), LAMBDA cm :
            VariantMembers(Tail(members), cm.baseTypes, Append(cases, Some(cm.result))))
    ELSE VariantMembers(Tail(members), bt, Append(cases, Undefined))

visitVariantItem(v, node) ==
    LET top == getInterfaceData(v.interfaceData)
    IN  IF ~IsDefined(top) THEN Thrown(v)
        ELSE With(VariantMembers(node.members, v.baseTypes, <<>>), LAMBDA done :
                [WithTop(v, AddEntries(ValueOf(top), TsEntry("variant", node),
                                       <<CmVariant(toTs(node.name), done.cases)>>))
                    EXCEPT !.baseTypes = done.baseTypes])

\* member.visit(this, member): the handler of the member's kind
visitMember(v, item) ==
    CASE item.kind = "UseItem" -> visitUseItem(v, item)
      [] item.kind = "TypeItem" -> visitTypeItem(v, item)
      [] item.kind = "RecordItem" -> visitRecordItem(v, item)
      [] item.kind = "FuncItem" -> visitFuncItem(v, item)
      [] item.kind = "EnumItem" -> visitEnumItem(v, item)
      [] item.kind = "FlagsItem" -> visitFlagsItem(v, item)
      [] item.kind = "VariantItem" -> visitVariantItem(v, item)

\* visitInterfaceItem, up to its loop over the members
visitInterfaceItem(v) ==
    [v EXCEPT !.interfaceData = PushInterfaceData(@, NewInterfaceData)]

\* endVisitInterfaceItem: the `export namespace $cm { ... }` block
EmitDescriptors(data, code) ==
    IF Len(data.componentModelEntries) > 0
    THEN CodePush(decreaseIndent(
            ComponentModelEntriesEmit(data.componentModelEntries,
                increaseIndent(CodePush(code, "export namespace $cm {")))),
            "}")
    ELSE code

\* an end of interface that pushes no public-surface type
EmitNoExports(name, data, code) == code

\* endVisitInterfaceItem: the `export type <name> = Pick<...>;` line
EmitExports(name, data, code) ==
    IF Len(data.exports) > 0
    THEN CodePush(code, "export type " \o name \o " = Pick<typeof " \o name \o ", "
            \o Join([i \in 1..Len(data.exports) |-> "'" \o data.exports[i] \o "'"],
                    " | ")
            \o ">;")
    ELSE code

\* endVisitInterfaceItem on the popped InterfaceData: the Code it leaves
EmitInterface(item, data, code) ==
    With(increaseIndent(CodePush(code, "export namespace " \o toTs(item.name) \o " {")),
         LAMBDA c1 :
    With(IF Len(data.typeScriptEntries) > 0
         THEN TypeScriptEntriesEmit(data.typeScriptEntries, c1) ELSE c1, LAMBDA c2 :
    With(EmitDescriptors(data, c2), LAMBDA c3 :
        EmitExports(toTs(item.name), data, CodePush(decreaseIndent(c3), "}")))))

----------------------------------------------------------------------------
(* The document walk: one action per handler of the DocumentVisitor.  The  *)
(* walk visits an interface, then its members, then ends it; interfaces do *)
(* not nest; a member met outside an interface (in a world) is visited     *)
(* with no interface open.                                                 *)

VisitorInit ==
    /\ interfaceData = <<>>
    /\ imports = <<>>
    /\ baseTypes = <<>>
    /\ source = <<>>
    /\ indent = 0
    /\ sorted = <<>>
    /\ output = Undefined
    /\ phase = "walk"
    /\ walked = <<>>

\* the walk is inside an interface: its last interface is not yet ended
InInterface == Len(walked) > 0 /\ ~walked[Len(walked)].ended

RECURSIVE SumLen(_)
SumLen(ws) == IF ws = <<>> THEN 0 ELSE Len(Head(ws).members) + SumLen(Tail(ws))

\* the number of member items visited so far
ItemCount == SumLen(walked)

CanVisitMember == phase = "walk" /\ ItemCount < MaxItems

\* the state a member handler leaves, and the member it was given
Handled(v, item) ==
    /\ interfaceData' = v.interfaceData
    /\ imports' = v.imports
    /\ baseTypes' = v.baseTypes
    /\ phase' = IF v.failed THEN "failed" ELSE phase
    /\ walked' = IF InInterface
                 THEN [walked EXCEPT ![Len(walked)].members = Append(@, item)]
                 ELSE walked
    /\ UNCHANGED <<source, indent, sorted, output>>

VisitInterfaceItem ==
    /\ phase = "walk"
    /\ ~InInterface
    /\ Len(walked) < MaxInterfaces
    /\ interfaceData' = visitInterfaceItem(TheVisitor).interfaceData
    /\ walked' = Append(walked,
                    [item |-> [name |-> Identifier(InterfaceNameOf(Len(walked) + 1))],
                     members |-> <<>>, ended |-> FALSE])
    /\ UNCHANGED <<imports, baseTypes, source, indent, sorted, output, phase>>

VisitUseItem ==
    \E item \in UseItems :
        CanVisitMember /\ Handled(visitUseItem(TheVisitor, item), item)

VisitTypeItem ==
    \E item \in TypeItems :
        CanVisitMember /\ Handled(visitTypeItem(TheVisitor, item), item)

VisitRecordItem ==
    \E item \in RecordItems :
        CanVisitMember /\ Handled(visitRecordItem(TheVisitor, item), item)

VisitFuncItem ==
    \E item \in FuncItems :
        CanVisitMember /\ Handled(visitFuncItem(TheVisitor, item), item)

VisitEnumItem ==
    \E item \in EnumItems :
        CanVisitMember /\ Handled(visitEnumItem(TheVisitor, item), item)

VisitFlagsItem ==
    \E item \in FlagsItems :
        CanVisitMember /\ Handled(visitFlagsItem(TheVisitor, item), item)

VisitVariantItem ==
    \E item \in VariantItems :
        CanVisitMember /\ Handled(visitVariantItem(TheVisitor, item), item)

\* member.visit(this, member) on one declaration
CanVisitDeclaration == phase = "walk" /\ ItemCount < MaxMembers

VisitMember ==
    \/ \E item \in DeclaredEnums :
            CanVisitDeclaration /\ Handled(visitMember(TheVisitor, item), item)
    \/ \E item \in DeclaredVariants :
            CanVisitDeclaration /\ Handled(visitMember(TheVisitor, item), item)
    \/ \E item \in DeclaredRecords :
            CanVisitDeclaration /\ Handled(visitMember(TheVisitor, item), item)

\* the Code object of the visitor
TheCode ==
    [source |-> source, indent |-> indent, imports |-> imports,
     baseTypes |-> baseTypes]

EndVisitInterfaceItem ==
    /\ phase = "walk"
    /\ InInterface
    /\ LET top == getInterfaceData(interfaceData) IN
       IF ~IsDefined(top)
       THEN /\ phase' = "failed"
            /\ UNCHANGED <<interfaceData, imports, baseTypes, source, indent, sorted>>
       ELSE LET code == EmitInterface(walked[Len(walked)].item, ValueOf(top), TheCode)
            IN  /\ interfaceData' = PopInterfaceData(interfaceData)
                /\ source' = code.source
                /\ indent' = code.indent
                /\ imports' = code.imports
                /\ baseTypes' = code.baseTypes
                /\ sorted' = IF Len(ValueOf(top).componentModelEntries) > 0
                             THEN SortEntries(ValueOf(top).componentModelEntries)
                             ELSE sorted
                /\ phase' = phase
    /\ walked' = [walked EXCEPT ![Len(walked)].ended = TRUE]
    /\ UNCHANGED output

EndVisitDocument ==
    /\ phase = "walk"
    /\ ~InInterface
    /\ source' = CodeToString(TheCode)
    /\ output' = Some(Join(source', "\n"))
    /\ phase' = "done"
    /\ UNCHANGED <<interfaceData, imports, baseTypes, indent, sorted, walked>>

----------------------------------------------------------------------------
(* The classifiers, the Symbols object and the printers, each applied to   *)
(* inputs drawn from bounded sets.                                         *)

KindIdle == kind = JNull /\ kindOf = "" /\ matched = {} /\ classified = FALSE

KindInit ==
    \E name \in KindNames :
        /\ kind \in KindsOf(name)
        /\ kindOf = name
        /\ matched = {}
        /\ classified = FALSE

\* every predicate of TypeKind is asked about the node
Classify ==
    /\ ~classified
    /\ matched' = {p \in Predicates : Holds(p, kind)}
    /\ classified' = TRUE
    /\ UNCHANGED <<kind, kindOf, symbolVars, printerVars, visitorVars, ownerVars, cliVars>>

ObjectInit ==
    \E name \in ObjectKindNames :
        /\ kind \in ObjectKindsOf(name)
        /\ kindOf = name
        /\ matched = {}
        /\ classified = FALSE

\* every predicate of ObjectKind is asked about the value
ClassifyObject ==
    /\ ~classified
    /\ matched' = {p \in ObjectPredicates : ObjectHolds(p, kind)}
    /\ classified' = TRUE
    /\ UNCHANGED <<kind, kindOf, symbolVars, printerVars, visitorVars, ownerVars, cliVars>>

\* the worlds and interfaces arrays of a Document
DocumentOf(worlds, interfaces) == [worlds |-> worlds, interfaces |-> interfaces]

OwnerIdle ==
    /\ owner = JNull
    /\ document = DocumentOf(<<>>, <<>>)
    /\ resolved = Undefined
    /\ ownerKind = Undefined

\* the owners of a wit-json file, and objects that are no owner
WellFormedOwners ==
    {JObj([world |-> JNum(i)]) : i \in 0..MaxIndex}
    \cup {JObj([interface |-> JNum(i)]) : i \in 0..MaxIndex}
MalformedOwners ==
    {JObj([world |-> JStr("0")]), JObj([interface |-> JStr("1")]),
     JObj([interface |-> JNull]), JObj([name |-> JStr("w")]),
     JObj([world |-> JNull, interface |-> JStr("0")])}
Owners == WellFormedOwners \cup MalformedOwners

\* the arrays of up to MaxIndex + 1 worlds or interfaces
ArraysOf(prefix) ==
    {[i \in 1..n |-> JObj([name |-> JStr(prefix \o NumberText(i - 1))])] :
        n \in 0..(MaxIndex + 1)}

OwnerInit ==
    /\ owner \in Owners
    /\ \E worlds \in ArraysOf("w"), interfaces \in ArraysOf("i") :
            document = DocumentOf(worlds, interfaces)
    /\ resolved = Undefined
    /\ ownerKind = Undefined

\* Owner.resolve(owner, symbols)
ResolveOwner ==
    /\ ~IsDefined(resolved)
    /\ resolved' = Some(OwnerResolve(owner, document))
    /\ UNCHANGED <<owner, document, ownerKind, kindVars, symbolVars, printerVars,
                   visitorVars, cliVars>>

\* Owner.kind(owner)
KindOfOwner ==
    /\ ~IsDefined(ownerKind)
    /\ ownerKind' = Some(OwnerKindOf(owner))
    /\ UNCHANGED <<owner, document, resolved, kindVars, symbolVars, printerVars,
                   visitorVars, cliVars>>

\* Options.defaults
OptionsDefaults == [help |-> FALSE, version |-> FALSE, outDir |-> Undefined, file |-> Undefined]

CliIdle ==
    /\ options = OptionsDefaults
    /\ files = [stat |-> "file", read |-> "text", parse |-> "value", process |-> "returns"]
    /\ pc = "idle"
    /\ exitCode = Undefined
    /\ stderr = <<>>

\* the options of a command line: -h, -v and the first positional argument
CommandLines ==
    {[help |-> h, version |-> v, outDir |-> Undefined, file |-> f] :
        h \in BOOLEAN, v \in BOOLEAN, f \in {Undefined, Some(""), Some("a.json")}}

\* what fs.stat, fs.readFile, JSON.parse and processDocument will do
FileSystems ==
    [stat : {"throws", "directory", "file"}, read : {"throws", "text"},
     parse : {"throws", "value"}, process : {"throws", "returns"}]

CliInit ==
    /\ options \in CommandLines
    /\ files \in FileSystems
    /\ pc = "run"
    /\ exitCode = Undefined
    /\ stderr = <<>>

\* what a part of run leaves: where run is, the status it returned, and the
\* text it wrote to stderr
Returns(status, written) == [pc |-> "returned", exitCode |-> Some(status), stderr |-> written]
Awaits(at) == [pc |-> at, exitCode |-> Undefined, stderr |-> <<>>]

\* the catch clause of run
Caught(error) ==
    Returns(1, <<"Creating TypeScript file failed\n" \o error \o "\n">>)

\* run, up to `await fs.stat`
RunToStat(opts) ==
    IF opts.help THEN Returns(0, <<>>)
    ELSE IF opts.version THEN Returns(0, <<>>)
    ELSE IF ~IsDefined(opts.file) \/ ValueOf(opts.file) = ""
    THEN Returns(1, <<"Missing file argument.\n">>)
    ELSE Awaits("stat")

\* run, from the answer of fs.stat up to `await fs.readFile`
RunToRead(opts, fsys) ==
    IF fsys.stat = "throws" THEN Caught("Error: ENOENT")
    ELSE IF fsys.stat # "file"
    THEN Returns(1, <<ValueOf(opts.file) \o " is not a file.\n">>)
    ELSE Awaits("read")

\* a run that does not look at what processDocument did
RunToEndUnchecked(fsys) ==
    IF fsys.read = "throws" THEN Caught("Error: EACCES")
    ELSE IF fsys.parse = "throws" THEN Caught("SyntaxError: Unexpected token")
    ELSE Returns(0, <<>>)

\* run, from the answer of fs.readFile to its end
RunToEnd(fsys) ==
    IF fsys.read = "throws" THEN Caught("Error: EACCES")
    ELSE IF fsys.parse = "throws" THEN Caught("SyntaxError: Unexpected token")
    ELSE IF fsys.process = "throws" THEN Caught("Error: processDocument")
    ELSE Returns(0, <<>>)

\* run has got as far as `part` says
Ran(part) ==
    /\ pc' = part.pc
    /\ exitCode' = part.exitCode
    /\ stderr' = stderr \o part.stderr
    /\ UNCHANGED <<options, files, kindVars, symbolVars, printerVars, visitorVars,
                   ownerVars>>

RunStart == pc = "run" /\ Ran(RunToStat(options))
RunStat == pc = "stat" /\ Ran(RunToRead(options, files))
RunRead == pc = "read" /\ Ran(RunToEnd(files))

SymbolsInit == symbols = EmptyMap /\ lookedUp = Undefined /\ lookupResult = Undefined

SymbolNames == {"t", "r", "my_t"}
SymbolSources == {"types", "wasi_io"}

CanAddSymbol(name) ==
    name \in DOMAIN symbols \/ Cardinality(DOMAIN symbols) < MaxSymbols

AddLocal ==
    \E name \in SymbolNames :
        /\ CanAddSymbol(name)
        /\ symbols' = MapSet(symbols, name, LocalSymbol(name))
        /\ UNCHANGED <<lookedUp, lookupResult, kindVars, printerVars, visitorVars, ownerVars, cliVars>>

AddImported ==
    \E name \in SymbolNames, from \in SymbolSources,
       original \in {Undefined} \cup {Some(n) : n \in SymbolNames} :
        /\ CanAddSymbol(name)
        /\ symbols' = MapSet(symbols, name, ImportedSymbol(name, from, original))
        /\ UNCHANGED <<lookedUp, lookupResult, kindVars, printerVars, visitorVars, ownerVars, cliVars>>

\* symbols.get(name)?.getComponentModelName()
GetSymbol ==
    \E name \in SymbolNames :
        /\ lookedUp' = Some(name)
        /\ lookupResult' =
            IF IsDefined(SymbolsGet(symbols, name))
            THEN Some(getComponentModelName(ValueOf(SymbolsGet(symbols, name))))
            ELSE Undefined
        /\ UNCHANGED <<symbols, kindVars, printerVars, visitorVars, ownerVars, cliVars>>

PrinterIdle ==
    tyNode = U8 /\ tsResult = Undefined /\ cmResult = Undefined /\ printed = FALSE

\* the type nodes printed: the primitives and identifiers, and one level of
\* every composite over them
PrimitiveNodes == {[kind |-> k] : k \in PrimitiveKinds}
IdentifierNodes == {Identifier(n) : n \in {"t", "my-type", "%u8", "this"}}
AtomNodes == PrimitiveNodes \cup IdentifierNodes
OptionalAtoms == {Undefined} \cup {Some(a) : a \in AtomNodes}
CompositeNodes ==
    {ListTy(a) : a \in AtomNodes}
    \cup {OptionTy(a) : a \in AtomNodes}
    \cup {BorrowTy(a) : a \in IdentifierNodes}
    \cup {TupleTy(<<a>>) : a \in AtomNodes}
    \cup {TupleTy(<<a, Identifier("t")>>) : a \in AtomNodes}
    \cup {ResultTy(ok, error) : ok \in OptionalAtoms, error \in OptionalAtoms}
NestedNodes ==
    {ListTy(ListTy(U8)), OptionTy(BorrowTy(Identifier("t"))),
     ListTy(BorrowTy(Identifier("t"))),
     TupleTy(<<U32, BorrowTy(Identifier("t"))>>),
     ResultTy(Some(ListTy(U8)), Some(BorrowTy(Identifier("t"))))}
TyNodes == AtomNodes \cup CompositeNodes \cup NestedNodes
FuncResultNodes ==
    {FuncResult(t) : t \in AtomNodes \cup NestedNodes}
    \cup {NamedFuncResult(<<>>), NamedFuncResult(<<Member("a", U32)>>)}

PrinterInit ==
    /\ tyNode \in TyNodes \cup FuncResultNodes
    /\ tsResult = Undefined
    /\ cmResult = Undefined
    /\ printed = FALSE

\* TypeScript.TyPrinter.do and ComponentModel.TyPrinter.do on one node
PrintType ==
    /\ ~printed
    /\ tyNode \in TyNodes
    /\ tsResult' = Some(TsDo(tyNode, <<>>))
    /\ cmResult' = Some(CmDo(tyNode, <<>>))
    /\ printed' = TRUE
    /\ UNCHANGED <<tyNode, kindVars, symbolVars, visitorVars, ownerVars, cliVars>>

\* the two FuncResultPrinter.do on one function result
PrintFuncResult ==
    /\ ~printed
    /\ tyNode \in FuncResultNodes
    /\ tsResult' = Some(TsFuncResultDo(tyNode, <<>>))
    /\ cmResult' = Some(CmFuncResultDo(tyNode, <<>>))
    /\ printed' = TRUE
    /\ UNCHANGED <<tyNode, kindVars, symbolVars, visitorVars, ownerVars, cliVars>>

----------------------------------------------------------------------------
(* The specifications.                                                     *)

Init == VisitorInit /\ KindIdle /\ SymbolsInit /\ PrinterIdle /\ OwnerIdle /\ CliIdle

Next ==
    \/ (VisitInterfaceItem /\ UNCHANGED <<kindVars, symbolVars, printerVars, ownerVars, cliVars>>)
    \/ (VisitUseItem /\ UNCHANGED <<kindVars, symbolVars, printerVars, ownerVars, cliVars>>)
    \/ (VisitTypeItem /\ UNCHANGED <<kindVars, symbolVars, printerVars, ownerVars, cliVars>>)
    \/ (VisitRecordItem /\ UNCHANGED <<kindVars, symbolVars, printerVars, ownerVars, cliVars>>)
    \/ (VisitFuncItem /\ UNCHANGED <<kindVars, symbolVars, printerVars, ownerVars, cliVars>>)
    \/ (VisitEnumItem /\ UNCHANGED <<kindVars, symbolVars, printerVars, ownerVars, cliVars>>)
    \/ (VisitFlagsItem /\ UNCHANGED <<kindVars, symbolVars, printerVars, ownerVars, cliVars>>)
    \/ (VisitVariantItem /\ UNCHANGED <<kindVars, symbolVars, printerVars, ownerVars, cliVars>>)
    \/ (EndVisitInterfaceItem /\ UNCHANGED <<kindVars, symbolVars, printerVars, ownerVars, cliVars>>)
    \/ (EndVisitDocument /\ UNCHANGED <<kindVars, symbolVars, printerVars, ownerVars, cliVars>>)

\* the document walk
Spec == Init /\ [][Next]_vars

KindSpecInit == KindInit /\ SymbolsInit /\ PrinterIdle /\ VisitorInit /\ OwnerIdle /\ CliIdle

\* the classifiers on every well-formed TypeKind node
SpecKind == KindSpecInit /\ [][Classify]_vars

ObjectSpecInit == ObjectInit /\ SymbolsInit /\ PrinterIdle /\ VisitorInit /\ OwnerIdle /\ CliIdle

\* the classifiers on every ObjectKind value
SpecObject == ObjectSpecInit /\ [][ClassifyObject]_vars

SymbolsNext == AddLocal \/ AddImported \/ GetSymbol

\* one Symbols object
SpecSymbols == Init /\ [][SymbolsNext]_vars

PrinterSpecInit == PrinterInit /\ KindIdle /\ SymbolsInit /\ VisitorInit /\ OwnerIdle /\ CliIdle

PrinterNext == PrintType \/ PrintFuncResult

\* the printers on every type node
SpecPrinter == PrinterSpecInit /\ [][PrinterNext]_vars

OwnerSpecInit == OwnerInit /\ KindIdle /\ SymbolsInit /\ PrinterIdle /\ VisitorInit /\ CliIdle

OwnerNext == ResolveOwner \/ KindOfOwner

\* Owner.resolve and Owner.kind on every owner
SpecOwner == OwnerSpecInit /\ [][OwnerNext]_vars

CliSpecInit ==
    CliInit /\ KindIdle /\ SymbolsInit /\ PrinterIdle /\ VisitorInit /\ OwnerIdle

CliNext == RunStart \/ RunStat \/ RunRead

\* run on every command line and file system
SpecCli == CliSpecInit /\ [][CliNext]_vars

\* the number of calls of Code.toString on one Code object
MaxToString == 2

\* the number of `$wcm` import lines in the buffer: one per call of toString
ToStringCalls == Cardinality({i \in 1..Len(source) : source[i] = WcmImportLine})

\* this.code.toString() on the Code object of a finished walk
CodeToStringAgain ==
    /\ phase = "done"
    /\ ToStringCalls < MaxToString
    /\ source' = CodeToString(TheCode)
    /\ output' = Some(Join(source', "\n"))
    /\ UNCHANGED <<interfaceData, imports, baseTypes, indent, sorted, phase, walked>>

\* The walk over a document of single declarations, and toString on its Code.
CodeNext ==
    \/ VisitInterfaceItem /\ UNCHANGED <<kindVars, symbolVars, printerVars, ownerVars, cliVars>>
    \/ VisitMember /\ UNCHANGED <<kindVars, symbolVars, printerVars, ownerVars, cliVars>>
    \/ EndVisitInterfaceItem /\ UNCHANGED <<kindVars, symbolVars, printerVars, ownerVars, cliVars>>
    \/ EndVisitDocument /\ UNCHANGED <<kindVars, symbolVars, printerVars, ownerVars, cliVars>>
    \/ CodeToStringAgain /\ UNCHANGED <<kindVars, symbolVars, printerVars, ownerVars, cliVars>>

SpecCode == Init /\ [][CodeNext]_vars

\* The walk over a document of single declarations.
ItemNext ==
    \/ VisitInterfaceItem /\ UNCHANGED <<kindVars, symbolVars, printerVars, ownerVars, cliVars>>
    \/ VisitMember /\ UNCHANGED <<kindVars, symbolVars, printerVars, ownerVars, cliVars>>
    \/ EndVisitInterfaceItem /\ UNCHANGED <<kindVars, symbolVars, printerVars, ownerVars, cliVars>>
    \/ EndVisitDocument /\ UNCHANGED <<kindVars, symbolVars, printerVars, ownerVars, cliVars>>

SpecItem == Init /\ [][ItemNext]_vars

----------------------------------------------------------------------------
(* The properties.                                                         *)

\* the first position of pat in s, or 0
IndexOf(s, pat) ==
    LET at == {p \in 1..(Len(s) - Len(pat) + 1) : SubSeq(s, p, p + Len(pat) - 1) = pat}
    IN  IF at = {} THEN 0 ELSE CHOOSE p \in at : \A q \in at : p <= q

\* the line without its indentation
Stripped(line) ==
    LET at == {p \in 1..Len(line) : Char(line, p) # " "}
    IN  IF at = {} THEN ""
        ELSE SubSeq(line, CHOOSE p \in at : \A q \in at : p <= q, Len(line))

RECURSIVE Split(_, _)
\* String.prototype.split
Split(s, sep) ==
    LET p == IndexOf(s, sep)
    IN  IF p = 0 THEN <<s>>
        ELSE <<SubSeq(s, 1, p - 1)>> \o Split(SubSeq(s, p + Len(sep), Len(s)), sep)

NoDuplicates(seq) == \A a, b \in 1..Len(seq) : a # b => seq[a] # seq[b]

\* the text from the end of the first `open` up to the next `close`
Between(s, open, close) ==
    LET from == IndexOf(s, open) + Len(open)
        rest == SubSeq(s, from, Len(s))
    IN  SubSeq(rest, 1, IndexOf(rest, close) - 1)

\* a line declares a descriptor constant: `export const $X` or `const $X`
DeclaresDescriptor(line) ==
    StartsWith(Stripped(line), "export const $") \/ StartsWith(Stripped(line), "const $")

\* the X of the `const $X` a line declares
DeclaredName(line) ==
    LET rest == SubSeq(line, IndexOf(line, "const $") + 7, Len(line))
        ends == {p \in 1..Len(rest) : Char(rest, p) \in {":", " "}}
    IN  SubSeq(rest, 1, (CHOOSE p \in ends : \A q \in ends : p <= q) - 1)

\* the names of the descriptor constants declared by lines, in line order
DeclaredNames(lines) ==
    LET decls == SelectSeq(lines, DeclaresDescriptor)
    IN  [i \in 1..Len(decls) |-> DeclaredName(decls[i])]

isFunction(e) == e.emitter = "functionSignature"
isNotFunction(e) == e.emitter # "functionSignature"

\* endVisitInterfaceItem emits an interface that has descriptor entries
EmitsDescriptors ==
    /\ phase = "walk"
    /\ InInterface
    /\ walked'[Len(walked)].ended
    /\ Len(interfaceData) > 0
    /\ Len(interfaceData[Len(interfaceData)].componentModelEntries) > 0

\* C2: ComponentModelEntries.emit emits the entries added to the buffer as a
\* stable partition: the non-function entries in their original relative
\* order, then the functionSignature entries in their original relative
\* order; the descriptor constants are declared on the emitted lines in
\* that order.
C2_StablePartition ==
    [][EmitsDescriptors =>
        LET entries == interfaceData[Len(interfaceData)].componentModelEntries
            expected == SelectSeq(entries, isNotFunction) \o SelectSeq(entries, isFunction)
            emitted == SubSeq(source', Len(source) + 1, Len(source'))
        IN  /\ sorted' = expected
            /\ DeclaredNames(emitted) = [i \in 1..Len(expected) |-> expected[i].name]
    ]_vars

\* an interface written [func, type, func] was emitted [type, func, func]
C2_FunctionMovedBehindType ==
    /\ Len(walked) = 1
    /\ walked[1].ended
    /\ [i \in 1..Len(walked[1].members) |-> walked[1].members[i].kind]
            = <<"FuncItem", "TypeItem", "FuncItem">>
    /\ walked[1].members[1] # walked[1].members[3]
    /\ [i \in 1..Len(sorted) |-> sorted[i].name]
            = <<walked[1].members[2].name.value, walked[1].members[1].name.value,
                walked[1].members[3].name.value>>

\* C1 (as stated): every well-formed TypeKind node is matched by exactly
\* one of the eleven classifier predicates.
C1_ExactlyOneOfEleven == classified => Cardinality(matched) = 1

\* C1 (amended): of the ten predicates other than isTypeObject exactly one
\* matches a well-formed TypeKind node, the one written for the node's own
\* kind; isTypeObject matches as well exactly when the node is a base type
\* or a type reference.
C1_OnePredicatePerKind ==
    classified =>
        /\ matched \ {"isTypeObject"} = {PredicateOf(kindOf)}
        /\ ("isTypeObject" \in matched) <=> (kindOf \in {"base", "reference"})

\* a base-type node has been classified: isBaseType and isTypeObject match
C1_BaseTypeClassified ==
    /\ classified
    /\ kindOf = "base"
    /\ matched = {"isBaseType", "isTypeObject"}

\* the characters that continue an identifier
IdentifierChars ==
    {"a", "b", "c", "d", "e", "f", "g", "h", "i", "j", "k", "l", "m", "n", "o",
     "p", "q", "r", "s", "t", "u", "v", "w", "x", "y", "z", "_", "$",
     "0", "1", "2", "3", "4", "5", "6", "7", "8", "9"}

\* text refers to the local descriptor constant $name: `$name` stands in it,
\* not behind a `.` (as in types.$cm.$name), and the identifier ends there
RefersTo(text, name) ==
    \E p \in 1..(Len(text) - Len(name)) :
        /\ SubSeq(text, p, p + Len(name)) = "$" \o name
        /\ (p = 1 \/ Char(text, p - 1) # ".")
        /\ (p + Len(name) = Len(text) \/ Char(text, p + Len(name) + 1) \notin IdentifierChars)

\* the type texts a descriptor entry constructs its constant from
TypeTexts(e) ==
    CASE e.emitter = "record" -> {e.fields[i][2] : i \in 1..Len(e.fields)}
      [] e.emitter = "type" -> {e.type}
      [] e.emitter = "functionSignature" ->
            {e.parameters[i][2] : i \in 1..Len(e.parameters)}
                \cup {TextOrUndefined(e.returnType)}
      [] e.emitter = "variant" -> {TextOrUndefined(e.cases[i]) : i \in 1..Len(e.cases)}
      [] OTHER -> {}

\* C3 (as stated): in the descriptor block emitted for an interface, every
\* descriptor constant $X of the block that an entry refers to is declared
\* by an earlier entry, in whatever order the items were written.
C3_DeclaredBeforeUse ==
    \A i \in 1..Len(sorted) : \A k \in 1..Len(sorted) :
        (\E text \in TypeTexts(sorted[i]) : RefersTo(text, sorted[k].name))
            => \E j \in 1..(i - 1) : sorted[j].name = sorted[k].name

\* the import statements of the use-clauses in the source
IsImportStatement(line) == StartsWith(line, "import { ")
ImportStatements == SelectSeq(source, IsImportStatement)
ImportedNames(line) == Split(Between(line, "import { ", " } from '"), ", ")
ImportedFrom(line) == Between(line, " } from '", "';")

\* C4 (as stated): the import statement of a source interface lists no
\* imported name twice.
C4_NoNameTwice ==
    phase = "done" =>
        \A i \in 1..Len(ImportStatements) : NoDuplicates(ImportedNames(ImportStatements[i]))

\* the use-clauses the walk has visited
UseClauses ==
    UNION {{walked[i].members[j] : j \in {j \in 1..Len(walked[i].members) :
                                            walked[i].members[j].kind = "UseItem"}} :
           i \in 1..Len(walked)}

\* the module paths of the source interfaces the use-clauses name
UsedSources == {"./" \o u.importItem.name.value : u \in UseClauses}

\* C5: the final source text has exactly one import statement per distinct
\* source interface named by the use-clauses of the document, and none for
\* any other source.
C5_OneImportPerSource ==
    phase = "done" =>
        /\ {ImportedFrom(ImportStatements[i]) : i \in 1..Len(ImportStatements)}
                = UsedSources
        /\ Len(ImportStatements) = Cardinality(UsedSources)

\* a finished document whose two interfaces both name the source `types`,
\* and one names `wasi-io` as well
C5_SourceNamedTwice ==
    /\ phase = "done"
    /\ Len(walked) = 2
    /\ \A i \in 1..2 : \E j \in 1..Len(walked[i].members) :
            /\ walked[i].members[j].kind = "UseItem"
            /\ walked[i].members[j].importItem.name.value = "types"
    /\ Cardinality(UsedSources) = 2
    /\ Len(ImportStatements) = 2

\* the base-type import statements in the source
IsBaseTypeImport(line) == StartsWith(line, "import type { ")
BaseTypeImports == SelectSeq(source, IsBaseTypeImport)

\* C6: the generated file has at most one base-type import statement, it
\* lists each registered alias exactly once, and it is present iff at least
\* one alias was registered.
C6_BaseTypesOnce ==
    phase = "done" =>
        /\ Len(BaseTypeImports) <= 1
        /\ Len(BaseTypeImports) = 1 <=> Len(baseTypes) > 0
        /\ \A i \in 1..Len(BaseTypeImports) :
            LET names == Split(Between(BaseTypeImports[i], "import type { ", " } from '"),
                               ", ")
            IN  NoDuplicates(names) /\ Range(names) = Range(baseTypes)

\* a finished document in which u32 was registered by a type item and again
\* by a record item, and flags by a flags item: one statement, each once
C6_AliasUsedTwice ==
    /\ phase = "done"
    /\ \E i \in 1..Len(walked) : \E a, b, c \in 1..Len(walked[i].members) :
            /\ walked[i].members[a] = TypeItem("t", U32)
            /\ walked[i].members[b].kind = "RecordItem"
            /\ walked[i].members[c].kind = "FlagsItem"
    /\ Len(BaseTypeImports) = 1
    /\ Range(baseTypes) = {"u32", "flags"}

RECURSIVE IdentifiersOf(_)
\* the type names a type node refers to
IdentifiersOf(node) ==
    CASE node.kind = "Identifier" -> {node.value}
      [] node.kind = "Tuple" ->
            UNION {IdentifiersOf(node.members[i]) : i \in 1..Len(node.members)}
      [] node.kind \in {"List", "Option"} -> IdentifiersOf(node.type)
      [] node.kind = "Result" ->
            (IF IsDefined(node.ok) THEN IdentifiersOf(ValueOf(node.ok)) ELSE {})
                \cup (IF IsDefined(node.error) THEN IdentifiersOf(ValueOf(node.error))
                      ELSE {})
      [] node.kind = "Borrow" -> IdentifiersOf(node.name)
      [] node.kind = "FuncResult" -> IdentifiersOf(node.type)
      [] node.kind = "NamedFuncResult" ->
            UNION {IdentifiersOf(node.members[i].type) : i \in 1..Len(node.members)}
      [] OTHER -> {}

\* the type names a member item of an interface refers to
ReferencedBy(item) ==
    CASE item.kind = "TypeItem" -> IdentifiersOf(item.type)
      [] item.kind = "RecordItem" ->
            UNION {IdentifiersOf(item.members[i].type) : i \in 1..Len(item.members)}
      [] item.kind = "FuncItem" ->
            UNION {IdentifiersOf(item.signature.params.members[i].type) :
                        i \in 1..Len(item.signature.params.members)}
                \cup (IF IsDefined(item.signature.result)
                      THEN IdentifiersOf(ValueOf(item.signature.result)) ELSE {})
      [] item.kind = "VariantItem" ->
            UNION {IF IsDefined(item.members[i].type)
                   THEN IdentifiersOf(ValueOf(item.members[i].type)) ELSE {} :
                        i \in 1..Len(item.members)}
      [] OTHER -> {}

\* the type names a member item of an interface declares or imports
DeclaredBy(item) ==
    CASE item.kind = "UseItem" ->
            IF item.importItem.kind = "NamedImports"
            THEN {IF item.importItem.members[i].kind = "RenameItem"
                  THEN item.importItem.members[i].to.value
                  ELSE item.importItem.members[i].value :
                        i \in 1..Len(item.importItem.members)}
            ELSE {}
      [] item.kind = "FuncItem" -> {}
      [] OTHER -> {item.name.value}

\* the type names interface w refers to without declaring or importing them
Unresolved(w) ==
    UNION {ReferencedBy(w.members[i]) : i \in 1..Len(w.members)}
        \ UNION {DeclaredBy(w.members[i]) : i \in 1..Len(w.members)}

\* C8 (as stated): an interface that refers to a type name it neither
\* declares nor imports aborts the run: it is never emitted, and no
\* descriptor entry of it refers to a $<name> for that name.
C8_UnresolvedAborts ==
    \A i \in 1..Len(walked) :
        (walked[i].ended /\ Unresolved(walked[i]) # {}) => phase = "failed"

\* the InterfaceData the member handlers leave for the members of one
\* interface, visited with nothing but a new InterfaceData on the stack
RECURSIVE VisitMembers(_, _)
VisitMembers(v, members) ==
    IF members = <<>> \/ ~Evaluated(v.interfaceData) THEN v
    ELSE VisitMembers(visitMember(v, Head(members)), Tail(members))

OwnData(w) ==
    LET v == VisitMembers([interfaceData |-> <<NewInterfaceData>>, imports |-> <<>>,
                           baseTypes |-> <<>>, failed |-> FALSE], w.members)
    IN  v.interfaceData[1]

RECURSIVE OwnBlocks(_)
\* the lines of the first n interfaces, each emitted from its own items
OwnBlocks(n) ==
    IF n = 0 THEN <<>>
    ELSE LET before == OwnBlocks(n - 1)
         IN  IF ~Evaluated(before) THEN <<>>
             ELSE EmitInterface(walked[n].item, OwnData(walked[n]),
                                [source |-> before, indent |-> 0, imports |-> <<>>,
                                 baseTypes |-> <<>>]).source

\* the number of interfaces emitted so far
EndedCount == Cardinality({i \in 1..Len(walked) : walked[i].ended})

\* C9: every interface visit starts with a new, empty InterfaceData, which
\* is removed when the interface's emission ends; the namespace block and
\* the public-surface type of an interface are made of the items of that
\* interface alone.
C9_InterfaceDataIsolated ==
    /\ (InInterface /\ phase = "walk") =>
            /\ Len(interfaceData) = 1
            /\ interfaceData[1] = OwnData(walked[Len(walked)])
    /\ ~InInterface => interfaceData = <<>>
    /\ phase = "walk" => source = OwnBlocks(EndedCount)
    /\ phase = "done" =>
            SubSeq(source, Len(source) - Len(OwnBlocks(EndedCount)) + 1, Len(source))
                = OwnBlocks(EndedCount)

\* two interfaces with members of their own have been emitted, and the
\* second is made of its own function only
C9_SecondInterfaceEmitted ==
    /\ phase = "walk"
    /\ Len(walked) = 2
    /\ walked[2].ended
    /\ Len(walked[1].members) = 2
    /\ walked[1].members[1].kind = "TypeItem"
    /\ walked[1].members[2].kind = "FuncItem"
    /\ walked[2].members = <<FuncItem("g", <<>>, Undefined)>>
    /\ interfaceData = <<>>
    /\ source[Len(source)] = "export type wasi_io = Pick<typeof wasi_io, 'g'>;"

\* C7 (as stated): the descriptor name of a symbol is $<name> when local
\* and <from>.$cm.$<original ?? name> when imported, the last segment
\* carrying the $ prefix.
C7_DescriptorName ==
    (IsDefined(lookedUp) /\ IsDefined(lookupResult)) =>
        LET sym == symbols[ValueOf(lookedUp)]
        IN  ValueOf(lookupResult) =
                IF sym.cls = "LocalSymbol"
                THEN "$" \o sym.name
                ELSE sym.from \o ".$cm.$"
                        \o (IF IsDefined(sym.original)
                            THEN ValueOf(sym.original) ELSE sym.name)

\* C10 (as stated): the declaration printer produces a non-empty result
\* iff the descriptor printer produces a non-empty result.
C10_PrinterParity ==
    printed => ((ValueOf(tsResult).result = "") <=> (ValueOf(cmResult).result = ""))

\* The walk has ended an interface whose only member is a declaration of
\* the given kind.
DeclaredIs(k) ==
    /\ Len(walked) >= 1
    /\ walked[1].ended
    /\ Len(walked[1].members) = 1
    /\ walked[1].members[1].kind = k

\* that declaration
Declared == walked[1].members[1]

\* the emitted lines, without indentation
Lines == [i \in 1..Len(source) |-> Stripped(source[i])]

EndsWith(s, p) == Len(s) >= Len(p) /\ SubSeq(s, Len(s) - Len(p) + 1, Len(s)) = p

\* a line of the form `<name> = <ordinal>,`
IsEnumCaseLine(line) == IndexOf(line, " = ") > 0 /\ EndsWith(line, ",")

\* C11: an enum of n cases is declared with the i-th case given the
\* ordinal i counted from zero, in case order, and its descriptor is
\* constructed with the count n.
C11_EnumOrdinals ==
    DeclaredIs("EnumItem") =>
        LET cases == Declared.members
            name == toTs(Declared.name)
        IN  /\ SelectSeq(Lines, IsEnumCaseLine)
                    = [i \in 1..Len(cases) |->
                            toTs(cases[i]) \o " = " \o NumberText(i - 1) \o ","]
            /\ \E i \in 1..Len(Lines) :
                    Lines[i] = "export const $" \o name \o " = new $wcm.EnumType<"
                                \o name \o ">(" \o NumberText(Len(cases)) \o ");"
            /\ sorted = <<[emitter |-> "enumeration", name |-> name,
                           cases |-> Len(cases)]>>

C11_ThreeCaseEnum ==
    /\ DeclaredIs("EnumItem")
    /\ Len(Declared.members) = 3
    /\ phase = "done"
    /\ \E i \in 1..Len(Lines) : Lines[i] = "$in = 2,"

\* the emitted lines that start with a prefix, in line order
LinesStarting(prefix) == SelectSeq(Lines, LAMBDA line : StartsWith(line, prefix))

\* C12: the i-th case of a variant gets the constant tag i (counted from
\* zero); the shape of a case has a `value` member iff the case has a
\* payload type, and its constructor `_<case>` takes a value parameter iff
\* the case has a payload.
C12_VariantCases ==
    DeclaredIs("VariantItem") =>
        \A i \in 1..Len(Declared.members) :
            LET case == Declared.members[i]
                name == toTs(case.name)
                shapes == LinesStarting("export type " \o name \o " = {")
                ctors == LinesStarting("export function _" \o name \o "(")
            IN  /\ LinesStarting("export const " \o name \o " = ")
                        = <<"export const " \o name \o " = " \o NumberText(i - 1) \o ";">>
                /\ Len(shapes) = 1
                /\ IndexOf(shapes[1], "readonly value: ") > 0 <=> IsDefined(case.type)
                /\ Len(ctors) = 1
                /\ StartsWith(ctors[1], "export function _" \o name \o "(value: ")
                        <=> IsDefined(case.type)
                /\ StartsWith(ctors[1], "export function _" \o name \o "()")
                        <=> ~IsDefined(case.type)

C12_PayloadAndNone ==
    /\ DeclaredIs("VariantItem")
    /\ phase = "done"
    /\ Len(Declared.members) = 3
    /\ Declared.members[1].type = Some(U32)
    /\ Declared.members[2].type = Undefined
    /\ Declared.members[3].type = Some(Identifier("t"))
    /\ \E i \in 1..Len(Lines) : Lines[i] = "export function _b_c(): b_c {"
    /\ \E i \in 1..Len(Lines) : Lines[i] = "export function _$in(value: t): $in {"

\* the members of the `_vt` union of the declared variant
ValueTypeMembers ==
    LET line == LinesStarting("export type _vt = ")[1]
    IN  Range(Split(SubSeq(line, Len("export type _vt = ") + 1, Len(line) - 1), " | "))

\* C13: the `_vt` union of a variant has the member `undefined` iff at
\* least one case has no payload, and has the payload type of every case
\* that has one.
C13_ValueTypeUnion ==
    DeclaredIs("VariantItem") =>
        /\ Len(LinesStarting("export type _vt = ")) = 1
        /\ "undefined" \in ValueTypeMembers
                <=> \E i \in 1..Len(Declared.members) :
                        ~IsDefined(Declared.members[i].type)
        /\ \A i \in 1..Len(Declared.members) :
                IsDefined(Declared.members[i].type) =>
                    TsDo(ValueOf(Declared.members[i].type), <<>>).result
                        \in ValueTypeMembers

C13_UnionWithUndefined ==
    /\ DeclaredIs("VariantItem")
    /\ phase = "done"
    /\ Len(Declared.members) = 3
    /\ Declared.members[2].type = Undefined
    /\ ValueTypeMembers = {"u32", "string", "undefined"}

\* C14: the case list of a variant descriptor has one entry per case in
\* declaration order, the descriptor of the payload of a case that has one
\* and `undefined` for a case that has none, and the descriptor refers to
\* the `_ctor` of the variant.
C14_VariantDescriptor ==
    DeclaredIs("VariantItem") =>
        LET name == toTs(Declared.name)
            cases == Declared.members
            lines == LinesStarting("export const $" \o name \o " = ")
        IN  /\ Len(lines) = 1
            /\ StartsWith(lines[1],
                    "export const $" \o name \o " = new $wcm.VariantType<" \o name
                        \o ", " \o name \o "._ct, " \o name \o "._vt>([")
            /\ Split(Between(lines[1], ">([", "], "), ", ")
                    = [i \in 1..Len(cases) |->
                            IF IsDefined(cases[i].type)
                            THEN CmDo(ValueOf(cases[i].type), <<>>).result
                            ELSE "undefined"]
            /\ EndsWith(lines[1], "], " \o name \o "._ctor);")

C14_DescriptorOfThreeCases ==
    /\ DeclaredIs("VariantItem")
    /\ phase = "done"
    /\ \E i \in 1..Len(Lines) :
            Lines[i] = "export const $va = new $wcm.VariantType<va, va._ct, va._vt>"
                        \o "([undefined, $wcm.u32, $t], va._ctor);"

NumericKinds ==
    {"u8", "u16", "u32", "u64", "s8", "s16", "s32", "s64", "float32", "float64"}

\* C15 (as stated): for each of the ten numeric element primitives list<T>
\* is declared as a specialized typed array and described by a bare
\* constructor expression `new $wcm.<Name>ArrayType()`; the ten pairs are
\* pairwise distinct and differ from the generic form of list<string>.
C15_TypedArrays ==
    (printed /\ tyNode.kind = "List" /\ tyNode.type.kind \in NumericKinds) =>
        LET ts == ValueOf(tsResult).result
            cm == ValueOf(cmResult).result
        IN  /\ EndsWith(ts, "Array")
            /\ StartsWith(cm, "new $wcm.")
            /\ EndsWith(cm, "ArrayType()")
            /\ cm = "new $wcm." \o ts \o "Type()"
            /\ \A k \in NumericKinds \ {tyNode.type.kind} :
                    /\ TsDo(ListTy([kind |-> k]), <<>>).result # ts
                    /\ CmDo(ListTy([kind |-> k]), <<>>).result # cm
            /\ TsDo(ListTy([kind |-> "string"]), <<>>).result = "string[]"
            /\ CmDo(ListTy([kind |-> "string"]), <<>>).result
                    = "new $wcm.ListType<string>($wcm.wstring)"

\* the declaration and the descriptor of an arm of a result type
ArmDeclaration(arm) == IF IsDefined(arm) THEN TsDo(ValueOf(arm), <<>>).result ELSE "void"
ArmDescriptor(arm) ==
    IF IsDefined(arm) THEN CmDo(ValueOf(arm), <<>>).result ELSE "undefined"

\* C16 (as stated): in a result type an absent ok arm is `void` in the
\* declaration and `undefined` in the descriptor, likewise an absent error
\* arm, independently of the other arm; a present arm is emitted as that
\* arm's own declaration and descriptor.
C16_ResultArms ==
    (printed /\ tyNode.kind = "Result") =>
        /\ ValueOf(tsResult).result
                = "result<" \o ArmDeclaration(tyNode.ok) \o ", "
                    \o ArmDeclaration(tyNode.error) \o ">"
        /\ ValueOf(cmResult).result
                = "new $wcm.ResultType<" \o ArmDeclaration(tyNode.ok) \o ", "
                    \o ArmDeclaration(tyNode.error) \o ">("
                    \o ArmDescriptor(tyNode.ok) \o ", "
                    \o ArmDescriptor(tyNode.error) \o ")"

\* a line of the form `<field>: <type>;` of an interface body
IsFieldLine(line) ==
    /\ IndexOf(line, ": ") > 0
    /\ EndsWith(line, ";")
    /\ ~StartsWith(line, "export ")
    /\ ~StartsWith(line, "import ")

\* the fields a declaration lists, in line order
FieldNames(lines) ==
    [i \in 1..Len(lines) |-> SubSeq(lines[i], 1, IndexOf(lines[i], ": ") - 1)]

\* the [name, descriptor] pairs of the line `['f', d], ['g', e]`
PairsOf(line) == Split(SubSeq(line, 2, Len(line) - 1), "], [")

\* the position of the first line that equals text, or 0
LineOf(text) ==
    LET at == {i \in 1..Len(Lines) : Lines[i] = text}
    IN  IF at = {} THEN 0 ELSE CHOOSE i \in at : \A j \in at : i <= j

\* C17: the declaration of a record lists exactly its fields in order and
\* its descriptor lists exactly the pairs [field, descriptor of the field's
\* type] in the same order: same length, same names, same positions.
C17_RecordFields ==
    DeclaredIs("RecordItem") =>
        LET name == toTs(Declared.name)
            members == Declared.members
            fields == SelectSeq(Lines, IsFieldLine)
            at == LineOf("export const $" \o name \o " = new $wcm.RecordType<"
                            \o name \o ">([")
        IN  /\ fields = [i \in 1..Len(members) |->
                            toTs(members[i].name) \o ": "
                                \o TsDo(members[i].type, <<>>).result \o ";"]
            /\ at > 0
            /\ Lines[at + 2] = "]);"
            /\ PairsOf(Lines[at + 1])
                    = [i \in 1..Len(members) |->
                            "'" \o toTs(members[i].name) \o "', "
                                \o CmDo(members[i].type, <<>>).result]
            /\ Len(PairsOf(Lines[at + 1])) = Len(fields)
            /\ \A i \in 1..Len(fields) :
                    StartsWith(PairsOf(Lines[at + 1])[i],
                               "'" \o FieldNames(fields)[i] \o "', ")

C17_ThreeFieldRecord ==
    /\ DeclaredIs("RecordItem")
    /\ phase = "done"
    /\ FieldNames(SelectSeq(Lines, IsFieldLine)) = <<"a", "b_c", "$in">>
    /\ \E i \in 1..Len(Lines) :
            Lines[i] = "['a', $wcm.u32], ['b_c', $t], "
                        \o "['$in', new $wcm.OptionType<string>($wcm.wstring)]"

\* endVisitInterfaceItem emits the open interface
EmitsInterface ==
    /\ phase = "walk"
    /\ InInterface
    /\ walked'[Len(walked)].ended
    /\ Len(interfaceData) > 0

\* the positions of the lines of a sequence that satisfy Test
PositionsOf(lines, Test(_)) == {i \in 1..Len(lines) : Test(lines[i])}

isFuncItem(item) == item.kind = "FuncItem"

\* C18: the end of an interface emits, in this order, the namespace opening,
\* all declarations of the interface, a nested `$cm` block iff a descriptor
\* entry was recorded, the namespace closing, and a `Pick` type iff a
\* function was declared; the `Pick` type lists exactly the names of the
\* functions of the interface, each once, in declaration order, and no
\* other name.
C18_InterfaceLayout ==
    [][EmitsInterface =>
        LET data == interfaceData[Len(interfaceData)]
            name == toTs(walked[Len(walked)].item.name)
            funcs == SelectSeq(walked[Len(walked)].members, isFuncItem)
            emitted == SubSeq(source', Len(source) + 1, Len(source'))
            cmAt == PositionsOf(emitted, LAMBDA l : l = "    export namespace $cm {")
            closeAt == PositionsOf(emitted, LAMBDA l : l = "}")
            pickAt == PositionsOf(emitted, LAMBDA l :
                        StartsWith(l, "export type " \o name \o " = Pick<typeof "
                                        \o name \o ", "))
            declEnd == IF cmAt = {} THEN Len(emitted) - 1 - Cardinality(pickAt)
                       ELSE (CHOOSE i \in cmAt : TRUE) - 1
        IN  /\ emitted[1] = "export namespace " \o name \o " {"
            /\ Cardinality(cmAt) = IF Len(data.componentModelEntries) > 0 THEN 1 ELSE 0
            /\ Cardinality(closeAt) = 1
            /\ Cardinality(pickAt) = IF Len(funcs) > 0 THEN 1 ELSE 0
            /\ closeAt = {Len(emitted) - Cardinality(pickAt)}
            /\ pickAt \subseteq {Len(emitted)}
            /\ \A c \in cmAt :
                    /\ 1 < c /\ c < Len(emitted) - Cardinality(pickAt)
                    /\ emitted[Len(emitted) - Cardinality(pickAt) - 1] = "    }"
                    /\ \A i \in 1..Len(emitted) : DeclaresDescriptor(emitted[i]) => c < i
            /\ SubSeq(emitted, 2, declEnd)
                    = (IF Len(data.typeScriptEntries) > 0
                       THEN TypeScriptEntriesEmit(data.typeScriptEntries,
                                [source |-> <<>>, indent |-> 1, imports |-> imports,
                                 baseTypes |-> baseTypes]).source
                       ELSE <<>>)
            /\ \A p \in pickAt :
                    Split(Between(emitted[p], ", ", ">;"), " | ")
                        = [i \in 1..Len(funcs) |-> "'" \o toTs(funcs[i].name) \o "'"]
    ]_vars

\* an interface written [type t, func f, func g] has been emitted: its
\* descriptor block is followed by the closing and by Pick<.., 'f' | 'g'>
C18_TypeAndTwoFunctions ==
    /\ phase = "walk"
    /\ Len(walked) = 1
    /\ walked[1].ended
    /\ Len(walked[1].members) = 3
    /\ walked[1].members[1].kind = "TypeItem"
    /\ walked[1].members[2] = FuncItem("f", <<Member("p", Identifier("r"))>>,
                                        Some(FuncResult(Identifier("t"))))
    /\ walked[1].members[3] = FuncItem("g", <<>>, Undefined)
    /\ source[Len(source)] = "export type types = Pick<typeof types, 'f' | 'g'>;"
    /\ source[Len(source) - 1] = "}"
    /\ source[Len(source) - 2] = "    }"

\* a use-clause whose import item is a bare identifier or a bare rename
IsBareUse(item) ==
    item.kind = "UseItem" /\ item.importItem.kind \in {"Identifier", "RenameItem"}

\* the step visits such a use-clause as a member of the open interface
VisitsBareUse ==
    /\ InInterface
    /\ Len(walked'[Len(walked)].members) = Len(walked[Len(walked)].members) + 1
    /\ IsBareUse(walked'[Len(walked)].members[Len(walked'[Len(walked)].members)])

\* C19: visiting a use-clause whose import item is a bare identifier or a
\* bare rename raises an error: the handler does not return, the walk stops,
\* and no declaration entry, descriptor entry or import was recorded.
C19_BareUseFails ==
    [][/\ \A item \in {u \in UseItems : IsBareUse(u)} :
                LET v == visitUseItem(TheVisitor, item)
                IN  /\ v.failed
                    /\ v.interfaceData = interfaceData
                    /\ v.imports = imports
                    /\ v.baseTypes = baseTypes
       /\ VisitsBareUse =>
                /\ phase' = "failed"
                /\ UNCHANGED <<interfaceData, imports, baseTypes, source, indent,
                               sorted, output>>
       /\ phase = "failed" => UNCHANGED vars
    ]_vars

\* a bare rename visited after a type: the walk has failed with the entries
\* of the type alone and no import
C19_FailedOnBareRename ==
    /\ phase = "failed"
    /\ InInterface
    /\ walked[1].members
            = <<TypeItem("t", U32), UseItem(RenameItem(Identifier("types"), Identifier("ty")))>>
    /\ Len(interfaceData[1].typeScriptEntries) = 1
    /\ Len(interfaceData[1].componentModelEntries) = 1
    /\ imports = <<>>
    /\ output = Undefined

\* the handler of an item, run on this visitor, throws and records nothing
FailsUnrecorded(item) ==
    LET v == visitMember(TheVisitor, item)
    IN  v.failed /\ v.interfaceData = <<>>

\* C20: visiting a type, record, variant, enum, flags, function or use item
\* while the interface-data stack is empty raises an error instead of
\* returning, and the item is not recorded.
C20_NoItemOutsideInterface ==
    [][(interfaceData = <<>> /\ phase = "walk") =>
            /\ \A item \in UseItems : FailsUnrecorded(item)
            /\ \A item \in TypeItems : FailsUnrecorded(item)
            /\ \A item \in RecordItems : FailsUnrecorded(item)
            /\ \A item \in FuncItems : FailsUnrecorded(item)
            /\ \A item \in EnumItems : FailsUnrecorded(item)
            /\ \A item \in FlagsItems : FailsUnrecorded(item)
            /\ \A item \in VariantItems : FailsUnrecorded(item)
            /\ (walked' = walked /\ phase' # "done") =>
                    /\ phase' = "failed"
                    /\ interfaceData' = <<>>
                    /\ UNCHANGED <<imports, source, indent, sorted, output>>
    ]_vars

\* an item was visited after the only interface had ended: the walk has
\* failed and the stack is still empty
C20_FailedOutsideInterface ==
    /\ phase = "failed"
    /\ Len(walked) = 1
    /\ walked[1].ended
    /\ Len(walked[1].members) = 1
    /\ interfaceData = <<>>
    /\ output = Undefined

\* some visited member of an interface is a use-clause that raises an error
VisitedBareUse ==
    \E i \in 1..Len(walked) : \E j \in 1..Len(walked[i].members) :
        IsBareUse(walked[i].members[j])

\* C21: when a visit raises an error the source text is never emitted; the
\* text is output by endVisitDocument only, once, after every interface was
\* visited and emitted without error.
C21_NoOutputAfterError ==
    /\ [](phase = "failed" => output = Undefined)
    /\ [](VisitedBareUse => output = Undefined)
    /\ [](IsDefined(output) <=> phase = "done")
    /\ [][/\ phase \in {"failed", "done"} => UNCHANGED vars
          /\ output' # output =>
                /\ phase = "walk" /\ phase' = "done"
                /\ output = Undefined
                /\ \A i \in 1..Len(walked) : walked[i].ended
                /\ output' = Some(Join(CodeToString(TheCode), "\n"))
       ]_vars

\* the walk failed in the second interface, after the first was emitted
\* into the buffer: nothing was output
C21_FailedAfterFirstInterface ==
    /\ phase = "failed"
    /\ Len(walked) = 2
    /\ walked[1].ended
    /\ Len(walked[1].members) > 0
    /\ VisitedBareUse
    /\ Len(source) > 0
    /\ output = Undefined

\* the owner has a numeric member of the given name
HasNumeric(o, member) == member \in DOMAIN o.o /\ o.o[member].t = "number"

\* every member the owner was written with is named in the text, with its
\* value
NamesShape(text, o) ==
    /\ StartsWith(text, "Unknown owner kind {")
    /\ \A member \in DOMAIN o.o :
            /\ o.o[member].t = "string" =>
                    IndexOf(text, "\"" \o member \o "\":\"" \o o.o[member].s \o "\"") > 0
            /\ o.o[member].t = "null" =>
                    IndexOf(text, "\"" \o member \o "\":null") > 0

\* C22: Owner.resolve returns worlds[i] for an owner {world: i} and
\* interfaces[i] for an owner {interface: i}; for an owner with neither a
\* numeric `world` nor a numeric `interface` member, Owner.resolve and
\* Owner.kind raise an error whose message contains the raw JSON of the
\* owner.
C22_OwnerResolve ==
    /\ IsDefined(resolved) =>
            LET r == ValueOf(resolved)
            IN  IF HasNumeric(owner, "world")
                THEN r.t = "return"
                     /\ r.value = (IF owner.o.world.n < Len(document.worlds)
                                   THEN document.worlds[owner.o.world.n + 1]
                                   ELSE JUndefined)
                ELSE IF HasNumeric(owner, "interface")
                THEN r.t = "return"
                     /\ r.value = (IF owner.o.interface.n < Len(document.interfaces)
                                   THEN document.interfaces[owner.o.interface.n + 1]
                                   ELSE JUndefined)
                ELSE r.t = "throw" /\ NamesShape(r.message, owner)
    /\ IsDefined(ownerKind) =>
            LET k == ValueOf(ownerKind)
            IN  IF HasNumeric(owner, "world") \/ HasNumeric(owner, "interface")
                THEN k.t = "return"
                ELSE k.t = "throw" /\ NamesShape(k.message, owner)

\* an owner whose `world` is a string was given to both functions, and a
\* well-formed owner would have resolved in the same document
C22_MalformedOwnerRejected ==
    /\ owner = JObj([world |-> JStr("0")])
    /\ Len(document.worlds) = 2
    /\ IsDefined(resolved) /\ IsDefined(ownerKind)
    /\ ValueOf(resolved).message = "Unknown owner kind {\"world\":\"0\"}"
    /\ ValueOf(ownerKind).message = "Unknown owner kind {\"world\":\"0\"}"

\* the document was read, parsed and processed without error
Processed ==
    /\ IsDefined(options.file) /\ ValueOf(options.file) # ""
    /\ files = [stat |-> "file", read |-> "text", parse |-> "value",
                process |-> "returns"]

FileMissing == ~IsDefined(options.file) \/ ValueOf(options.file) = ""

\* C23 (as stated): run returns 0 only when help or version was requested
\* or the document was read, parsed and processed without error; it returns
\* 1 when the file argument is missing, when the path is not a regular file,
\* and when stat, read, parsing or processDocument raises; no error escapes.
C23_ExitStatus ==
    /\ pc \in {"run", "stat", "read", "returned"}
    /\ pc = "returned" =>
            /\ exitCode \in {Some(0), Some(1)}
            /\ exitCode = Some(0) => (options.help \/ options.version \/ Processed)
            /\ FileMissing => exitCode = Some(1)

\* C23: run returns 0 exactly when help or version was requested or the
\* document was read, parsed and processed without error, and 1 otherwise:
\* with neither help nor version requested, when the file argument is
\* missing, when the path is not a regular file, and when stat, read,
\* parsing or processDocument raises; no error escapes run.
C23_ExitStatusAfterOptions ==
    /\ pc \in {"run", "stat", "read", "returned"}
    /\ pc = "returned" =>
            /\ exitCode \in {Some(0), Some(1)}
            /\ exitCode = Some(0) <=> (options.help \/ options.version \/ Processed)
            /\ (~options.help /\ ~options.version) =>
                    /\ FileMissing =>
                            exitCode = Some(1) /\ stderr = <<"Missing file argument.\n">>
                    /\ (~FileMissing /\ ~Processed) =>
                            exitCode = Some(1) /\ Len(stderr) = 1
    /\ pc # "returned" => exitCode = Undefined

\* a run whose document did not parse returned 1 with the error text
C23_ParseErrorReported ==
    /\ pc = "returned"
    /\ ~options.help /\ ~options.version
    /\ files.stat = "file" /\ files.read = "text" /\ files.parse = "throws"
    /\ exitCode = Some(1)
    /\ stderr = <<"Creating TypeScript file failed\nSyntaxError: Unexpected token\n">>

\* C24 (as stated): Code.toString is idempotent and leaves the buffered
\* source unchanged: a second call on the same Code object returns the text
\* of the first, in which the `$wcm` import line, the base-type import line
\* and each per-source import line occur once.
C24_ToStringIdempotent ==
    /\ [][phase = "done" => (output' = output /\ source' = source)]_vars
    /\ [](phase = "done" =>
            /\ Len(SelectSeq(source, LAMBDA l : l = WcmImportLine)) = 1
            /\ Len(SelectSeq(source, IsBaseTypeImport)) <= 1
            /\ NoDuplicates(SelectSeq(source, IsImportStatement)))

\* the declaration and the descriptor a fresh printer gives each element
ElementsAlone(members, Do(_, _)) ==
    [i \in 1..Len(members) |-> Do(members[i], <<>>).result]

\* C25 (as stated): the descriptor recorded for a tuple element or function
\* parameter is determined by that element's own type alone, never carried
\* over from an earlier element, a borrow included: the descriptor of a
\* tuple lists, per element, what a fresh printer gives for that element.
C25_DescriptorOfOwnType ==
    (printed /\ tyNode.kind = "Tuple") =>
        ValueOf(cmResult).result
            = "new $wcm.TupleType<[" \o Join(ElementsAlone(tyNode.members, TsDo), ", ")
                \o "]>([" \o Join(ElementsAlone(tyNode.members, CmDo), ", ") \o "])"

\* the characters of a TypeScript name, and the qualifier dot before one
NameChars ==
    {"a", "b", "c", "d", "e", "f", "g", "h", "i", "j", "k", "l", "m", "n", "o", "p",
     "q", "r", "s", "t", "u", "v", "w", "x", "y", "z", "A", "B", "C", "D", "E", "F",
     "G", "H", "I", "J", "K", "L", "M", "N", "O", "P", "Q", "R", "S", "T", "U", "V",
     "W", "X", "Y", "Z", "0", "1", "2", "3", "4", "5", "6", "7", "8", "9", "_", "$"}

\* the name occurs in the line as a whole, unqualified name
OccursAsName(line, name) ==
    \E p \in 1..(Len(line) - Len(name) + 1) :
        /\ SubSeq(line, p, p + Len(name) - 1) = name
        /\ p > 1 => Char(line, p - 1) \notin NameChars \cup {"."}
        /\ p + Len(name) <= Len(line) => Char(line, p + Len(name)) \notin NameChars

\* C26 (as stated): every base-type alias listed in the base-type import
\* statement occurs as a type name in the emitted declarations or in a
\* descriptor's type arguments; no alias is imported without being used.
C26_ImportedAliasUsed ==
    phase = "done" =>
        \A a \in Range(baseTypes) :
            \E i \in 1..Len(source) :
                ~IsBaseTypeImport(source[i]) /\ OccursAsName(source[i], a)

\* C27 (as stated): when the visit of a type, record, variant, enum, flags
\* or function item fails because no interface is open, the visitor's state
\* is unchanged: the base-type imports, the per-source imports and the
\* source lines are those from before the visit.
C27_FailedVisitChangesNothing ==
    [][(interfaceData = <<>> /\ phase = "walk" /\ phase' = "failed") =>
            UNCHANGED <<baseTypes, imports, source>>]_vars

\* C28 (as stated): a list is specialized to a typed array only when its
\* element is one of the ten built-in numeric primitives; a list whose
\* element is a named type, one whose TypeScript name is `u8` included, is
\* declared as the generic `<T>[]` and described by a `ListType`.
C28_OnlyPrimitivesSpecialized ==
    (printed /\ tyNode.kind = "List") =>
        LET ts == ValueOf(tsResult).result
            cm == ValueOf(cmResult).result
            element == tyNode.type
        IN  /\ ts \in {TsArrayOf[k] : k \in DOMAIN TsArrayOf}
                    => element.kind \in NumericKinds
            /\ cm \in {CmArrayOf[k] : k \in DOMAIN CmArrayOf}
                    => element.kind \in NumericKinds
            /\ element.kind = "Identifier" =>
                    /\ ts = toTs(element) \o "[]"
                    /\ cm = "new $wcm.ListType<" \o toTs(element) \o ">($"
                                \o toTs(element) \o ")"

\* C29 (as stated): for every ObjectKind value of the three kinds (a type
\* object whose type is a number or a string, a function object, an
\* interface object) exactly one of isTypeObject, isFuncObject and
\* isInterfaceObject returns true.
C29_ExactlyOneObjectKind ==
    (classified /\ kindOf \in ObjectKindNames) => Cardinality(matched) = 1

\* the number of spaces a line starts with
LeadingSpaces(line) ==
    LET at == {p \in 1..Len(line) : Char(line, p) # " "}
    IN  IF at = {} THEN Len(line) ELSE (CHOOSE p \in at : \A q \in at : p <= q) - 1

\* the line opens a block: its last character is an opening bracket
OpensBlock(line) == Len(line) > 0 /\ Char(line, Len(line)) \in {"{", "["}

\* the line closes a block: its first character after the indentation is a
\* closing bracket
ClosesBlock(line) ==
    LeadingSpaces(line) < Len(line)
        /\ Char(line, LeadingSpaces(line) + 1) \in {"}", "]"}

\* every line is indented by the number of blocks open where it stands
LinesNested(lines) ==
    With([i \in 1..Len(lines) |-> OpensBlock(lines[i])], LAMBDA opens :
    With([i \in 1..Len(lines) |-> ClosesBlock(lines[i])], LAMBDA closes :
        \A i \in 1..Len(lines) :
            LeadingSpaces(lines[i]) \div 4
                = Cardinality({j \in 1..(i - 1) : opens[j]})
                    - Cardinality({j \in 1..i : closes[j]})))

\* C30: the indentation level is never negative at a push, it is 0 before
\* and after endVisitInterfaceItem, and every emitter decreases the indent
\* as often as it increases it: each emitted line is indented by the number
\* of blocks open at that line, and each recorded entry, emitted on the
\* current Code, leaves the indentation level it found.
C30_IndentBalanced ==
    /\ indent = 0
    /\ LinesNested(source)
    /\ \A d \in 1..Len(interfaceData) :
        /\ \A i \in 1..Len(interfaceData[d].typeScriptEntries) :
                TsEmit(interfaceData[d].typeScriptEntries[i], TheCode).indent = indent
        /\ \A i \in 1..Len(interfaceData[d].componentModelEntries) :
                CmEmit(interfaceData[d].componentModelEntries[i], TheCode).indent = indent

\* a finished document whose interface declared a variant, a record and a
\* function with a parameter: blocks nested three deep were emitted
C30_NestedBlocksEmitted ==
    /\ phase = "done"
    /\ indent = 0
    /\ \E i \in 1..Len(walked) : \E a, b \in 1..Len(walked[i].members) :
            /\ walked[i].members[a].kind = "VariantItem"
            /\ walked[i].members[b].kind = "FuncItem"
            /\ Len(walked[i].members[b].signature.params.members) > 0
    /\ \E l \in 1..Len(source) : LeadingSpaces(source[l]) = 16

====
